---- MODULE Spec2Model ----
(***************************************************************************)
(* Session / transport management and event fan-out of the viewer MCP      *)
(* server (src/src/mcp-server.ts): access gate, token-bucket rate limiter, *)
(* MCP SSE sessions with heartbeat and store mirror, message dispatch,     *)
(* viewer SSE / WebSocket registries and broadcast.                        *)
(***************************************************************************)
EXTENDS Integers, Sequences, FiniteSets, TLC

(* ------------------------------ bounds --------------------------------- *)
MaxConns == 2       \* inbound GET /api/mcp/sse requests considered
MaxTicks == 1       \* heartbeat ticks considered in a run
MaxDispatch == 1    \* POST /api/mcp/messages requests considered
MaxViewers == 1     \* inbound GET /api/viewer/sse requests considered
MaxWs == 1          \* WebSocket viewer connections considered
MaxPublish == 1     \* state-service calls considered
MaxClock == 1000     \* last instant (ms) at which the limiter is called
ClockStep == 100     \* milliseconds between two instants of the clock
MaxAppends == 130    \* logEvent calls considered for the ring buffer
MaxServiceCalls == 2 \* state-service calls considered when all four are on
MaxPreflight == 1    \* OPTIONS requests considered

(* ------------------------- program constants --------------------------- *)
DefaultMaxTokens == 60
DefaultRefillRate == 1
MaxRecentEvents == 100

Conns == 1..MaxConns
Viewers == 1..MaxViewers
WsClients == 1..MaxWs

NoKey == "none"
Secret == "secret"
NoId == -1
ForeignId == 0                      \* an id owned by another instance
LocalIds == 1..MaxConns             \* ids randomUUID() can hand out here
AllIds == LocalIds \cup {ForeignId}
DispatchIds == {ForeignId, 1}       \* ids a POST asks for: foreign, first local

OriginLocal == <<"http://localhost:3000">>
OriginVite == <<"http://localhost:5173">>
OriginLocalPath == <<"http://localhost:3000", "/viewer">>
OriginEvil == <<"http://evil.example">>
NoOrigin == <<>>
DefaultOrigins == {OriginLocal, OriginVite}

VARIABLES
    \* configuration read by the constructor
    mcpApiKey, allowedOrigins, storeAvailable,
    \* RateLimiter; rateCalls is the history of direct check() calls
    maxTokens, refillRate, buckets, now, rateCalls, allowedAt,
    \* MCP SSE sessions
    sseTransports, pc, sessionId, usedIds, writable, closeEmitted,
    closeListeners, closePc, hbTimers, hbCancels, ticks, extendCalls,
    sessFrames, resp, store, deleteIssued, connReq,
    \* dispatch
    ndisp, lastDispatch, npre, lastPreflight,
    \* viewer registries and state service
    viewerSSEClients, vHealth, vFrames, vHbTimers, vTicks, vResp, vReq,
    connectedClients, wsHealth, wsFrames,
    vrmState, npub, lastPublish,
    \* event log
    recentEvents, nlog,
    \* calls each handler made on its response object
    respCalls,
    \* tools/call requests handled so far, with their outcome
    toolCalls

cfgVars == <<mcpApiKey, allowedOrigins, storeAvailable, maxTokens, refillRate>>
sessVars == <<sseTransports, pc, sessionId, usedIds, writable, closeEmitted,
              closeListeners, closePc, hbTimers, hbCancels, ticks,
              extendCalls, sessFrames, resp, deleteIssued>>
dispVars == <<ndisp, lastDispatch>>
preVars == <<npre, lastPreflight>>
hubVars == <<viewerSSEClients, vHealth, vFrames, vHbTimers, vTicks, vResp,
             connectedClients, wsHealth, wsFrames, vrmState, npub, lastPublish>>
vars == <<cfgVars, buckets, now, rateCalls, allowedAt, sessVars, store, connReq, vReq,
          dispVars, preVars, hubVars, recentEvents, nlog, respCalls, toolCalls>>

(* ------------------------------ requests ------------------------------- *)
Req(h, q, o, r, i) == [hdrKey |-> h, qKey |-> q, origin |-> o, referer |-> r, ip |-> i]
ReqHdr == Req(Secret, "", OriginLocal, NoOrigin, "ipA")      \* key in header
ReqAnon == Req("", "", NoOrigin, NoOrigin, "ipA")            \* no key at all
ReqEvil == Req(Secret, "", OriginEvil, NoOrigin, "ipA")      \* foreign origin
ReqDrained == Req("", Secret, NoOrigin, NoOrigin, "ipB")     \* exhausted caller
Requests == {ReqHdr, ReqAnon, ReqEvil, ReqDrained}

IsPrefix(p, s) == Len(p) <= Len(s) /\ SubSeq(s, 1, Len(p)) = p

Min(a, b) == IF a <= b THEN a ELSE b

(* --------------------- IEEE-754 double arithmetic ---------------------- *)
\* A non-negative double is kept exactly, as the dyadic rational
\* Val(b) / 2^s: b are its significant bits, most significant first, without
\* leading zeros, s is the number of bits behind the binary point, and a
\* trailing zero bit behind the point is dropped.  Every operation computes
\* the exact result and rounds it to 53 significant bits, ties to even, as
\* the number type of the program does.
Mantissa == 53

\* drop the leading zero bits, and the trailing ones behind the point
Canon(b, s) ==
    LET ones == {i \in 1..Len(b) : b[i] = 1}
    IN IF ones = {} THEN [b |-> <<>>, s |-> 0]
       ELSE LET hi == CHOOSE i \in ones : \A j \in ones : i <= j
                lo == CHOOSE i \in ones : \A j \in ones : i >= j
                drop == Min(s, Len(b) - lo)
            IN [b |-> SubSeq(b, hi, Len(b) - drop), s |-> s - drop]

StripLead(b) == Canon(b, 0).b

Zeros(n) == [i \in 1..n |-> 0]

RECURSIVE IntBits(_)
IntBits(n) == IF n = 0 THEN <<>> ELSE Append(IntBits(n \div 2), n % 2)

RECURSIVE BitsVal(_)
BitsVal(b) == IF b = <<>> THEN 0 ELSE 2 * BitsVal(SubSeq(b, 1, Len(b) - 1)) + b[Len(b)]

\* bit strings are added and divided Limb bits at a time
Limb == 15

\* the w low bits of v
FixBits(v, w) == [i \in 1..w |-> (v \div 2^(w - i)) % 2]

\* sum of two bit strings of equal length and a carry, one bit longer
RECURSIVE AddCarry(_, _, _)
AddCarry(x, y, cin) ==
    LET n == Len(x)
    IN IF n <= Limb THEN FixBits(BitsVal(x) + BitsVal(y) + cin, n + 1)
       ELSE LET lo == FixBits(BitsVal(SubSeq(x, n - Limb + 1, n))
                              + BitsVal(SubSeq(y, n - Limb + 1, n)) + cin,
                              Limb + 1)
            IN AddCarry(SubSeq(x, 1, n - Limb), SubSeq(y, 1, n - Limb), lo[1])
               \o Tail(lo)

AddBits(x, y) == AddCarry(x, y, 0)

\* round to nearest, ties to even, at Mantissa significant bits
Round53(b0, s) ==
    LET b == StripLead(b0)
        extra == Len(b) - Mantissa
    IN IF extra <= 0 THEN Canon(b, s)
       ELSE LET keep == SubSeq(b, 1, Mantissa)
                rest == SubSeq(b, Mantissa + 1, Len(b))
                sticky == \E i \in 2..Len(rest) : rest[i] = 1
                up == rest[1] = 1 /\ (sticky \/ keep[Mantissa] = 1)
                kept == IF up
                        THEN AddBits(keep, Append(Zeros(Mantissa - 1), 1))
                        ELSE keep
            IN IF s >= extra THEN Canon(kept, s - extra)
               ELSE Canon(kept \o Zeros(extra - s), 0)

DZero == [b |-> <<>>, s |-> 0]
FromInt(n) == [b |-> IntBits(n), s |-> 0]

\* exact sum
AddExact(x, y) ==
    LET s == IF x.s >= y.s THEN x.s ELSE y.s
        xb == x.b \o Zeros(s - x.s)
        yb == y.b \o Zeros(s - y.s)
        n == IF Len(xb) >= Len(yb) THEN Len(xb) ELSE Len(yb)
    IN [b |-> AddBits(Zeros(n - Len(xb)) \o xb, Zeros(n - Len(yb)) \o yb),
        s |-> s]

\* x + y
\* x + 0 = x, 0 * k = 0 and 0 / q = 0 are exact and need no rounding
DAdd(x, y) ==
    IF y = DZero THEN x
    ELSE LET e == AddExact(x, y) IN Round53(e.b, e.s)

\* x * k for a non-negative integer k
RECURSIVE MulExact(_, _)
MulExact(x, k) ==
    IF k = 0 THEN DZero
    ELSE LET r == AddExact(x, MulExact(x, k - 1)) IN Canon(r.b, r.s)

DMulInt(x, k) ==
    IF x = DZero THEN DZero
    ELSE LET e == MulExact(x, k) IN Round53(e.b, e.s)

\* long division d / q of small non-negative integers: DivLimbs limbs of
\* bits behind the point, and one more bit that says whether a remainder
\* is left; that is more than Mantissa significant bits for d / q >= 2^-60
DivLimbs == 8

RECURSIVE DivBits(_, _, _)
DivBits(r, q, k) ==
    IF k = 0 THEN IF r = 0 THEN <<0>> ELSE <<1>>
    ELSE FixBits((r * 2^Limb) \div q, Limb) \o DivBits((r * 2^Limb) % q, q, k - 1)

DDivInt(d, q) ==
    IF d = 0 THEN DZero
    ELSE Round53(IntBits(d \div q) \o DivBits(d % q, q, DivLimbs),
                 DivLimbs * Limb + 1)

IntPart(x) == IF Len(x.b) > x.s THEN BitsVal(SubSeq(x.b, 1, Len(x.b) - x.s)) ELSE 0
FracBits(x) ==
    IF Len(x.b) >= x.s THEN SubSeq(x.b, Len(x.b) - x.s + 1, Len(x.b))
    ELSE Zeros(x.s - Len(x.b)) \o x.b

\* x >= 1
DGe1(x) == Len(x.b) > x.s

\* Math.min(k, x) for an integer k
DMinInt(k, x) ==
    IF IntPart(x) > k \/ (IntPart(x) = k /\ x.s > 0) THEN FromInt(k) ELSE x

\* x - 1 for x >= 1
DSub1(x) == Round53(IntBits(IntPart(x) - 1) \o FracBits(x), x.s)

(* --------------------------- RateLimiter ------------------------------- *)
\* `now` is Date.now(), in milliseconds; tokens are doubles
RateRefreshedNoRefill(b) == DMinInt(maxTokens, b.tokens)

RateRefreshedUnclamped(b) ==
    DAdd(b.tokens, DMulInt(DDivInt(now - b.lastRefill, 1000), refillRate))

RateRefreshed(b) ==
    DMinInt(maxTokens,
            DAdd(b.tokens, DMulInt(DDivInt(now - b.lastRefill, 1000), refillRate)))

RateCheckAllowAlways(key) == TRUE

RateCheckAllow(key) ==
    IF key \notin DOMAIN buckets THEN TRUE
    ELSE DGe1(RateRefreshed(buckets[key]))

RateCheckBuckets(key) ==
    IF key \notin DOMAIN buckets
    THEN [k \in DOMAIN buckets \cup {key} |->
            IF k = key
            THEN [tokens |-> FromInt(maxTokens - 1), lastRefill |-> now]
            ELSE buckets[k]]
    ELSE LET refreshed == RateRefreshed(buckets[key])
         IN [buckets EXCEPT ![key] =
                [tokens |-> IF DGe1(refreshed) THEN DSub1(refreshed) ELSE refreshed,
                 lastRefill |-> now]]

(* --------------------------- access gate ------------------------------- *)
ProvidedKey(req) == IF req.hdrKey # "" THEN req.hdrKey ELSE req.qKey

CheckAuthHeaderOnly(req) == mcpApiKey = NoKey \/ req.hdrKey = mcpApiKey

CheckAuth(req) == mcpApiKey = NoKey \/ ProvidedKey(req) = mcpApiKey

DeclaredOriginRefererFirst(req) ==
    IF req.referer # NoOrigin THEN req.referer ELSE req.origin

DeclaredOrigin(req) == IF req.origin # NoOrigin THEN req.origin ELSE req.referer

CheckCORSListedOnly(req) ==
    \E o \in allowedOrigins : IsPrefix(o, DeclaredOrigin(req)) \/ o = <<"*">>

CheckCORS(req) ==
    LET origin == DeclaredOrigin(req)
        allowed == \E o \in allowedOrigins : IsPrefix(o, origin) \/ o = <<"*">>
    IN allowed \/ origin = NoOrigin

RateKey(req) == IF req.hdrKey # "" THEN req.hdrKey
                ELSE IF req.ip # "" THEN req.ip ELSE "anonymous"

CheckRateLimit(req) == RateCheckAllow(RateKey(req))

\* the response headers checkCORS sets when it lets the request through
CorsHeaders(req) ==
    IF CheckCORS(req)
    THEN [allowOrigin |-> IF DeclaredOrigin(req) # NoOrigin
                          THEN DeclaredOrigin(req) ELSE <<"*">>,
          allowMethods |-> <<"GET", "POST", "OPTIONS">>,
          allowHeaders |-> <<"Content-Type", "x-api-key">>,
          allowCredentials |-> TRUE]
    ELSE <<>>

\* one call a handler makes on its response object
Call(op, code) == [op |-> op, code |-> code]
Reject(status) == <<Call("status", status), Call("json", 0)>>
SetHeaders(n) == [i \in 1..n |-> Call("setHeader", 0)]

\* the response calls of the three checks
CheckAuthCalls(req) == IF CheckAuth(req) THEN <<>> ELSE Reject(401)
CheckCORSCalls(req) == IF CheckCORS(req) THEN SetHeaders(4) ELSE Reject(403)
CheckRateLimitCalls(req) == IF CheckRateLimit(req) THEN <<>> ELSE Reject(429)

\* if (!check(req, res)) return; three times over
GateCalls(req) ==
    IF ~CheckAuth(req) THEN CheckAuthCalls(req)
    ELSE IF ~CheckCORS(req) THEN CheckAuthCalls(req) \o CheckCORSCalls(req)
    ELSE CheckAuthCalls(req) \o CheckCORSCalls(req) \o CheckRateLimitCalls(req)

ViewerGateCalls(req) ==
    IF ~CheckCORS(req) THEN CheckCORSCalls(req)
    ELSE CheckCORSCalls(req) \o CheckRateLimitCalls(req)

\* OPTIONS handlers: this.checkCORS(req, res); res.status(200).end();
OptionsCalls(req) ==
    CheckCORSCalls(req) \o <<Call("status", 200), Call("end", 0)>>

GateStatusNoRate(req) ==
    IF ~CheckAuth(req) THEN 401
    ELSE IF ~CheckCORS(req) THEN 403
    ELSE 0

\* status of the three checks in handler order; 0 means the gate passed
GateStatus(req) ==
    IF ~CheckAuth(req) THEN 401
    ELSE IF ~CheckCORS(req) THEN 403
    ELSE IF ~CheckRateLimit(req) THEN 429
    ELSE 0

GateBucketsAlways(req) == RateCheckBuckets(RateKey(req))

\* the limiter is only reached when auth and CORS passed
GateBuckets(req) ==
    IF CheckAuth(req) /\ CheckCORS(req) THEN RateCheckBuckets(RateKey(req))
    ELSE buckets

ViewerGateStatusAuth(req) == GateStatus(req)

\* the viewer endpoint runs CORS and rate only
ViewerGateStatus(req) ==
    IF ~CheckCORS(req) THEN 403
    ELSE IF ~CheckRateLimit(req) THEN 429
    ELSE 0

ViewerGateBuckets(req) ==
    IF CheckCORS(req) THEN RateCheckBuckets(RateKey(req)) ELSE buckets

\* OPTIONS handlers: checkCORS, then status(200).end(); when checkCORS
\* already sent its 403 the later status(200).end() changes nothing
PreflightStatusGated(req) == IF GateStatus(req) # 0 THEN GateStatus(req) ELSE 200

PreflightStatus(req) == IF CheckCORS(req) THEN 200 ELSE 403

Endpoints == {"/api/mcp/sse", "/api/mcp/messages"}

Options(endpoint, req) ==
    /\ npre < MaxPreflight
    /\ npre' = npre + 1
    /\ lastPreflight' = [endpoint |-> endpoint, req |-> req,
                         status |-> PreflightStatus(req),
                         headers |-> CorsHeaders(req)]
    /\ respCalls' = [respCalls EXCEPT !.options = OptionsCalls(req)]
    /\ UNCHANGED <<cfgVars, toolCalls, buckets, now, rateCalls, allowedAt, sessVars, store,
                   connReq, vReq, dispVars, hubVars, recentEvents, nlog>>

(* ----------------------------- event log ------------------------------- *)
LogEventKeepOldest(log, entry) ==
    LET pushed == Append(log, entry)
    IN IF Len(pushed) > MaxRecentEvents
       THEN SubSeq(pushed, 1, MaxRecentEvents)
       ELSE pushed

LogEvent(log, entry) ==
    LET pushed == Append(log, entry)
    IN IF Len(pushed) > MaxRecentEvents
       THEN SubSeq(pushed, Len(pushed) - MaxRecentEvents + 1, Len(pushed))
       ELSE pushed

(* ------------------------ distributed store ---------------------------- *)
\* the store holds the ids that have a record; the TTL of a record is kept
\* inside the store and is not visible to this process
\* sessionManager.isAvailable()
IsAvailableAlways == TRUE

IsAvailable == storeAvailable

StoreSave(s, id) == s \cup {id}
StoreDeleteNoop(s, id) == s
StoreDelete(s, id) == s \ {id}
StoreExtend(s, id) == s
StoreHas(s, id) == id \in s

MapRemove(m, id) == [k \in DOMAIN m \ {id} |-> m[k]]
MapSet(m, id, v) == [k \in DOMAIN m \cup {id} |-> IF k = id THEN v ELSE m[k]]

(* ----------------------- MCP SSE session handler ----------------------- *)
\* ids the transport constructor (randomUUID) may return: never one that
\* this process or another instance already uses
FreshIds == LocalIds \ usedIds
FreshIdFixed == CHOOSE i \in LocalIds : \A j \in LocalIds : i <= j
FreshId == CHOOSE i \in FreshIds : \A j \in FreshIds : i <= j

SetInterval(n) == n + 1
ClearIntervalNoop(n) == n
ClearInterval(n) == 0

HeartbeatWriteSkip(frames) == frames
HeartbeatWrite(frames) == Append(frames, "ping")

\* GET /api/mcp/sse up to the first suspension point
Establish(c, req) ==
    /\ pc[c] = "idle"
    /\ connReq' = [connReq EXCEPT ![c] = req]
    /\ \A d \in Conns : d < c => pc[d] # "idle"     \* c numbers the arrivals
    /\ buckets' = GateBuckets(req)
    /\ IF GateStatus(req) # 0
       THEN /\ pc' = [pc EXCEPT ![c] = "rejected"]
            /\ resp' = [resp EXCEPT ![c] = GateStatus(req)]
            /\ UNCHANGED <<sseTransports, sessionId, usedIds, store,
                           closeListeners>>
       ELSE LET id == FreshId IN
            /\ sessionId' = [sessionId EXCEPT ![c] = id]
            /\ usedIds' = usedIds \cup {id}
            /\ sseTransports' = MapSet(sseTransports, id, c)
            /\ IF IsAvailable
               THEN /\ store' = StoreSave(store, id)
                    /\ pc' = [pc EXCEPT ![c] = "saving"]
                    /\ UNCHANGED closeListeners
               ELSE /\ closeListeners' =
                         [closeListeners EXCEPT ![c] = @ \cup {"teardown"}]
                    /\ pc' = [pc EXCEPT ![c] = "connecting"]
                    /\ UNCHANGED store
            /\ UNCHANGED resp
    /\ respCalls' = [respCalls EXCEPT !.conn[c] = GateCalls(req)]
    /\ UNCHANGED <<cfgVars, toolCalls, rateCalls, vReq, preVars, allowedAt, now, writable, closeEmitted,
                   closePc, hbTimers, hbCancels, ticks, extendCalls, sessFrames,
                   deleteIssued, dispVars, hubVars, recentEvents, nlog>>

\* saveSession resolved: the teardown listener is registered only now
SaveDone(c) ==
    /\ pc[c] = "saving"
    /\ closeListeners' = [closeListeners EXCEPT ![c] = @ \cup {"teardown"}]
    /\ pc' = [pc EXCEPT ![c] = "connecting"]
    /\ UNCHANGED <<cfgVars, toolCalls, respCalls, rateCalls, connReq, vReq, preVars, allowedAt, buckets, now, sseTransports, sessionId, usedIds,
                   writable, closeEmitted, closePc, hbTimers, hbCancels, ticks,
                   extendCalls, sessFrames, resp, deleteIssued, store,
                   dispVars, hubVars, recentEvents, nlog>>

ConnectOkTransportsReAdd(c) == MapSet(sseTransports, sessionId[c], c)
ConnectOkTransports(c) == sseTransports

\* mcpServer.connect(transport) resolved: log, start heartbeat, second listener
ConnectOk(c) ==
    /\ pc[c] = "connecting"
    /\ pc' = [pc EXCEPT ![c] = "done"]
    /\ sseTransports' = ConnectOkTransports(c)
    /\ resp' = [resp EXCEPT ![c] = 200]
    /\ sessFrames' = [sessFrames EXCEPT ![c] = Append(@, "endpoint")]
    /\ nlog' = nlog + 1
    /\ recentEvents' = LogEvent(recentEvents, <<"mcp_sse_connected", sessionId[c]>>)
    /\ hbTimers' = [hbTimers EXCEPT ![c] = SetInterval(@)]
    /\ closeListeners' = [closeListeners EXCEPT ![c] = @ \cup {"clearHb"}]
    /\ respCalls' = [respCalls EXCEPT !.conn[c] = Append(@, Call("writeHead", 200))]
    /\ UNCHANGED <<cfgVars, toolCalls, rateCalls, connReq, vReq, preVars, allowedAt, buckets, now, sessionId, usedIds, writable,
                   closeEmitted, closePc, hbCancels, ticks, extendCalls,
                   deleteIssued, store, dispVars, hubVars>>

\* mcpServer.connect(transport) rejected: the catch block rolls back
ConnectFail(c) ==
    /\ pc[c] = "connecting"
    /\ pc' = [pc EXCEPT ![c] = "done"]
    /\ sseTransports' = MapRemove(sseTransports, sessionId[c])
    /\ IF IsAvailable
       THEN /\ store' = StoreDelete(store, sessionId[c])
            /\ deleteIssued' = deleteIssued \cup {sessionId[c]}
       ELSE UNCHANGED <<store, deleteIssued>>
    /\ UNCHANGED <<cfgVars, toolCalls, respCalls, rateCalls, connReq, vReq, preVars, allowedAt, buckets, now, sessionId, usedIds, writable,
                   closeEmitted, closeListeners, closePc, hbTimers, hbCancels,
                   ticks, extendCalls, sessFrames, resp, dispVars, hubVars,
                   recentEvents, nlog>>

\* the client's connection goes away: the response stops being writable
ConnDrop(c) ==
    /\ pc[c] \in {"saving", "connecting", "done"}
    /\ writable[c]
    /\ writable' = [writable EXCEPT ![c] = FALSE]
    /\ UNCHANGED <<cfgVars, toolCalls, respCalls, rateCalls, connReq, vReq, preVars, allowedAt, buckets, now, sseTransports, pc, sessionId,
                   usedIds, closeEmitted, closeListeners, closePc, hbTimers,
                   hbCancels, ticks, extendCalls, sessFrames, resp,
                   deleteIssued, store, dispVars, hubVars, recentEvents, nlog>>

\* 'close' is emitted on the response: the listeners registered so far run,
\* the async one up to its await of deleteSession
CloseEmit(c) ==
    /\ ~writable[c]
    /\ ~closeEmitted[c]
    /\ closeEmitted' = [closeEmitted EXCEPT ![c] = TRUE]
    /\ IF "teardown" \in closeListeners[c]
       THEN /\ sseTransports' = MapRemove(sseTransports, sessionId[c])
            /\ IF IsAvailable
               THEN /\ store' = StoreDelete(store, sessionId[c])
                    /\ deleteIssued' = deleteIssued \cup {sessionId[c]}
                    /\ closePc' = [closePc EXCEPT ![c] = "deleting"]
                    /\ UNCHANGED <<recentEvents, nlog>>
               ELSE /\ nlog' = nlog + 1
                    /\ recentEvents' = LogEvent(recentEvents,
                            <<"mcp_sse_disconnected", sessionId[c]>>)
                    /\ closePc' = [closePc EXCEPT ![c] = "done"]
                    /\ UNCHANGED <<store, deleteIssued>>
       ELSE UNCHANGED <<sseTransports, store, deleteIssued, closePc,
                        recentEvents, nlog>>
    /\ IF "clearHb" \in closeListeners[c]
       THEN /\ hbTimers' = [hbTimers EXCEPT ![c] = ClearInterval(@)]
            /\ hbCancels' = [hbCancels EXCEPT ![c] = @ + 1]
       ELSE UNCHANGED <<hbTimers, hbCancels>>
    /\ UNCHANGED <<cfgVars, toolCalls, respCalls, rateCalls, connReq, vReq, preVars, allowedAt, buckets, now, pc, sessionId, usedIds, writable,
                   closeListeners, ticks, extendCalls, sessFrames, resp,
                   dispVars, hubVars>>

\* deleteSession resolved inside the close listener
CloseCont(c) ==
    /\ closePc[c] = "deleting"
    /\ closePc' = [closePc EXCEPT ![c] = "done"]
    /\ nlog' = nlog + 1
    /\ recentEvents' = LogEvent(recentEvents,
                                <<"mcp_sse_disconnected", sessionId[c]>>)
    /\ UNCHANGED <<cfgVars, toolCalls, respCalls, rateCalls, connReq, vReq, preVars, allowedAt, buckets, now, sseTransports, pc, sessionId,
                   usedIds, writable, closeEmitted, closeListeners, hbTimers,
                   hbCancels, ticks, extendCalls, sessFrames, resp,
                   deleteIssued, store, dispVars, hubVars>>

RECURSIVE SumTo(_, _)
SumTo(f, n) == IF n = 0 THEN 0 ELSE f[n] + SumTo(f, n - 1)

\* res.writable as the interval callback reads it
ResWritableAlways(c) == TRUE
ResWritable(c) == writable[c]

\* one firing of the heartbeat interval callback
HeartbeatTick(c) ==
    /\ hbTimers[c] > 0
    /\ SumTo(ticks, MaxConns) < MaxTicks
    /\ ticks' = [ticks EXCEPT ![c] = @ + 1]
    /\ IF ResWritable(c)
       THEN /\ sessFrames' = [sessFrames EXCEPT ![c] = HeartbeatWrite(@)]
            /\ IF IsAvailable
               THEN /\ store' = StoreExtend(store, sessionId[c])
                    /\ extendCalls' = [extendCalls EXCEPT ![c] = @ + 1]
               ELSE UNCHANGED <<store, extendCalls>>
            /\ UNCHANGED <<hbTimers, hbCancels>>
       ELSE /\ hbTimers' = [hbTimers EXCEPT ![c] = ClearInterval(@)]
            /\ hbCancels' = [hbCancels EXCEPT ![c] = @ + 1]
            /\ UNCHANGED <<sessFrames, store, extendCalls>>
    /\ UNCHANGED <<cfgVars, toolCalls, respCalls, rateCalls, connReq, vReq, preVars, allowedAt, buckets, now, sseTransports, pc, sessionId,
                   usedIds, writable, closeEmitted, closeListeners, closePc,
                   resp, deleteIssued, dispVars, hubVars, recentEvents, nlog>>

(* ------------------------- message dispatch ---------------------------- *)
\* POST /api/mcp/messages after the gate: where is the session id known?
DispatchStatusLocalOnly(sid, throws) ==
    IF sid \in DOMAIN sseTransports
    THEN IF throws THEN 500 ELSE 202
    ELSE 404

DispatchStatus(sid, throws) ==
    IF sid \in DOMAIN sseTransports
    THEN IF throws THEN 500 ELSE 202
    ELSE IF IsAvailable
         THEN IF ~StoreHas(store, sid) THEN 404 ELSE 503
         ELSE 404

\* the detail carried by the error handlePostMessage rejects with
ThrownMessage == "detail of the thrown error"

\* response bodies of the gate and of the dispatch handler
GateBody(status) ==
    CASE status = 401 -> "Unauthorized"
      [] status = 403 -> "Forbidden origin"
      [] status = 429 -> "Rate limit exceeded"
      [] OTHER -> ""

DispatchBodyLeaky(sid, throws) ==
    CASE DispatchStatus(sid, throws) = 500 -> ThrownMessage
      [] DispatchStatus(sid, throws) = 503 -> "Service temporarily unavailable"
      [] DispatchStatus(sid, throws) = 404 -> "Invalid session"
      [] OTHER -> "Accepted"

DispatchBody(sid, throws) ==
    CASE DispatchStatus(sid, throws) = 500 -> "Internal server error"
      [] DispatchStatus(sid, throws) = 503 -> "Service temporarily unavailable"
      [] DispatchStatus(sid, throws) = 404 -> "Invalid session"
      [] OTHER -> "Accepted"

\* the response calls after the gate: handlePostMessage answers 202, the
\* handler answers 404, 503 and 500 with status(..).json(..)
DispatchCalls(sid, throws) ==
    IF DispatchStatus(sid, throws) = 202
    THEN <<Call("writeHead", 202), Call("end", 0)>>
    ELSE Reject(DispatchStatus(sid, throws))

DispatchTarget(sid) ==
    IF sid \in DOMAIN sseTransports THEN sseTransports[sid] ELSE 0

Dispatch(req, sid, throws) ==
    /\ ndisp < MaxDispatch
    /\ ndisp' = ndisp + 1
    /\ buckets' = GateBuckets(req)
    /\ lastDispatch' =
         IF GateStatus(req) # 0
         THEN [sid |-> NoId, status |-> GateStatus(req), fwd |-> 0,
               req |-> req, threw |-> FALSE,
               body |-> GateBody(GateStatus(req))]
         ELSE [sid |-> sid, status |-> DispatchStatus(sid, throws),
               fwd |-> DispatchTarget(sid), req |-> req,
               threw |-> throws /\ sid \in DOMAIN sseTransports,
               body |-> DispatchBody(sid, throws)]
    /\ respCalls' = [respCalls EXCEPT !.post =
                        IF GateStatus(req) # 0 THEN GateCalls(req)
                        ELSE GateCalls(req) \o DispatchCalls(sid, throws)]
    /\ UNCHANGED <<cfgVars, toolCalls, rateCalls, connReq, vReq, preVars, allowedAt, now, sessVars, store, hubVars, recentEvents, nlog>>

(* ----------------------- viewer registries ---------------------------- *)
\* health of a connection: "new" (not yet connected), "open" (writable and
\* writes succeed), "broken" (still writable/OPEN but a write throws),
\* "closed" (res.writable false / readyState not OPEN), "rejected" (gate)
Null == "null"
SseFrame(type, data) == <<"event", type, data>>
WsFrame(type, data) == <<"json", type, data>>
RetryFrame == <<"retry", 10000>>
PingFrame == <<"comment", "ping">>
InitData == <<vrmState.modelPath, vrmState.isLoaded>>

HandshakeFramesReplay ==
    <<RetryFrame, SseFrame("init", InitData)>>
    \o (IF vrmState.modelPath # Null
        THEN <<SseFrame("load_vrm_model", <<"/models/", vrmState.modelPath>>)>>
        ELSE <<>>)
    \o [i \in 1..Len(lastPublish.msgs) |->
           SseFrame(lastPublish.msgs[i].type, lastPublish.msgs[i].data)]

HandshakeFramesInitLast ==
    <<RetryFrame>>
    \o (IF vrmState.modelPath # Null
        THEN <<SseFrame("load_vrm_model", <<"/models/", vrmState.modelPath>>)>>
        ELSE <<>>)
    \o <<SseFrame("init", InitData)>>

\* frames written to a new viewer stream, in order
HandshakeFrames ==
    <<RetryFrame, SseFrame("init", InitData)>>
    \o (IF vrmState.modelPath # Null
        THEN <<SseFrame("load_vrm_model", <<"/models/", vrmState.modelPath>>)>>
        ELSE <<>>)

\* Set.prototype.delete
SetDeleteNoop(set, x) == set

SetDelete(set, x) == set \ {x}

SeqRemove(seq, x) == SelectSeq(seq, LAMBDA y : y # x)
SeqRange(seq) == {seq[i] : i \in 1..Len(seq)}

\* GET /api/viewer/sse (the handler has no suspension point)
ViewerConnect(v, req) ==
    /\ vHealth[v] = "new"
    /\ \A u \in Viewers : u < v => vHealth[u] # "new"     \* v numbers the arrivals
    /\ vReq' = [vReq EXCEPT ![v] = req]
    /\ buckets' = ViewerGateBuckets(req)
    /\ IF ViewerGateStatus(req) # 0
       THEN /\ vHealth' = [vHealth EXCEPT ![v] = "rejected"]
            /\ vResp' = [vResp EXCEPT ![v] = ViewerGateStatus(req)]
            /\ UNCHANGED <<viewerSSEClients, vFrames, vHbTimers, recentEvents, nlog>>
       ELSE /\ vHealth' = [vHealth EXCEPT ![v] = "open"]
            /\ vResp' = [vResp EXCEPT ![v] = 200]
            /\ viewerSSEClients' = viewerSSEClients \cup {v}
            /\ nlog' = nlog + 1
            /\ recentEvents' = LogEvent(recentEvents, <<"viewer_sse_connected">>)
            /\ vFrames' = [vFrames EXCEPT ![v] = @ \o HandshakeFrames]
            /\ vHbTimers' = [vHbTimers EXCEPT ![v] = SetInterval(@)]
    /\ respCalls' = [respCalls EXCEPT !.viewer[v] =
                        IF ViewerGateStatus(req) # 0 THEN ViewerGateCalls(req)
                        ELSE ViewerGateCalls(req) \o SetHeaders(4)
                                 \o <<Call("flushHeaders", 200)>>]
    /\ UNCHANGED <<cfgVars, toolCalls, rateCalls, allowedAt, connReq, preVars, now, sessVars, store,
                   dispVars, vTicks, connectedClients, wsHealth, wsFrames, vrmState, npub,
                   lastPublish>>

SseWritableAlways(v) == TRUE
SseWritable(v) == vHealth[v] \in {"open", "broken"}

\* one firing of a viewer stream's heartbeat interval callback
ViewerTick(v) ==
    /\ vHbTimers[v] > 0
    /\ SumTo(vTicks, MaxViewers) < MaxTicks
    /\ vTicks' = [vTicks EXCEPT ![v] = @ + 1]
    /\ IF SseWritable(v)
       THEN /\ vFrames' = [vFrames EXCEPT ![v] =
                             IF vHealth[v] = "open" THEN Append(@, PingFrame) ELSE @]
            /\ UNCHANGED vHbTimers
       ELSE /\ vHbTimers' = [vHbTimers EXCEPT ![v] = ClearInterval(@)]
            /\ UNCHANGED vFrames
    /\ UNCHANGED <<cfgVars, toolCalls, respCalls, rateCalls, connReq, vReq, preVars, allowedAt, buckets, now, sessVars, store, dispVars,
                   viewerSSEClients, vHealth, vResp, connectedClients,
                   wsHealth, wsFrames, vrmState, npub, lastPublish,
                   recentEvents, nlog>>

\* the viewer's stream starts failing writes while still marked writable
ViewerBreak(v) ==
    /\ vHealth[v] = "open"
    /\ vHealth' = [vHealth EXCEPT ![v] = "broken"]
    /\ UNCHANGED <<cfgVars, toolCalls, respCalls, rateCalls, connReq, vReq, preVars, allowedAt, buckets, now, sessVars, store, dispVars,
                   viewerSSEClients, vFrames, vHbTimers, vTicks, vResp,
                   connectedClients, wsHealth, wsFrames, vrmState, npub,
                   lastPublish, recentEvents, nlog>>

\* the viewer's connection closes out-of-band: the response is not writable
ViewerDrop(v) ==
    /\ vHealth[v] \in {"open", "broken"}
    /\ vHealth' = [vHealth EXCEPT ![v] = "closed"]
    /\ UNCHANGED <<cfgVars, toolCalls, respCalls, rateCalls, connReq, vReq, preVars, allowedAt, buckets, now, sessVars, store, dispVars,
                   viewerSSEClients, vFrames, vHbTimers, vTicks, vResp,
                   connectedClients, wsHealth, wsFrames, vrmState, npub,
                   lastPublish, recentEvents, nlog>>

ViewerCloseEventTimerOnly(v) ==
    /\ vHealth[v] = "closed"
    /\ v \in viewerSSEClients
    /\ vHbTimers' = [vHbTimers EXCEPT ![v] = ClearInterval(@)]
    /\ UNCHANGED <<cfgVars, toolCalls, respCalls, rateCalls, connReq, vReq, preVars, allowedAt, buckets,
                   now, sessVars, store, dispVars, vHealth, viewerSSEClients,
                   vFrames, vTicks, vResp, connectedClients, wsHealth, wsFrames,
                   vrmState, npub, lastPublish, recentEvents, nlog>>

\* req 'close' listener of the viewer stream
ViewerCloseEvent(v) ==
    /\ vHealth[v] = "closed"
    /\ v \in viewerSSEClients
    /\ vHbTimers' = [vHbTimers EXCEPT ![v] = ClearInterval(@)]
    /\ viewerSSEClients' = SetDelete(viewerSSEClients, v)
    /\ nlog' = nlog + 1
    /\ recentEvents' = LogEvent(recentEvents, <<"viewer_sse_disconnected">>)
    /\ UNCHANGED <<cfgVars, toolCalls, respCalls, rateCalls, connReq, vReq, preVars, allowedAt, buckets, now, sessVars, store, dispVars, vHealth,
                   vFrames, vTicks, vResp, connectedClients, wsHealth,
                   wsFrames, vrmState, npub, lastPublish>>

\* wss 'connection': register and send the init message
WsConnect(w) ==
    /\ wsHealth[w] = "new"
    /\ \A u \in WsClients : u < w => wsHealth[u] # "new"
    /\ wsHealth' = [wsHealth EXCEPT ![w] = "open"]
    /\ connectedClients' = Append(connectedClients, w)
    /\ wsFrames' = [wsFrames EXCEPT ![w] = Append(@, WsFrame("init", InitData))]
    /\ UNCHANGED <<cfgVars, toolCalls, respCalls, rateCalls, connReq, vReq, preVars, allowedAt, buckets, now, sessVars, store, dispVars,
                   viewerSSEClients, vHealth, vFrames, vHbTimers, vTicks,
                   vResp, vrmState, npub, lastPublish, recentEvents, nlog>>

\* the socket stays OPEN but send() starts throwing
WsBreak(w) ==
    /\ wsHealth[w] = "open"
    /\ wsHealth' = [wsHealth EXCEPT ![w] = "broken"]
    /\ UNCHANGED <<cfgVars, toolCalls, respCalls, rateCalls, connReq, vReq, preVars, allowedAt, buckets, now, sessVars, store, dispVars,
                   viewerSSEClients, vHealth, vFrames, vHbTimers, vTicks,
                   vResp, connectedClients, wsFrames, vrmState, npub,
                   lastPublish, recentEvents, nlog>>

\* the socket leaves readyState OPEN
WsDrop(w) ==
    /\ wsHealth[w] \in {"open", "broken"}
    /\ wsHealth' = [wsHealth EXCEPT ![w] = "closed"]
    /\ UNCHANGED <<cfgVars, toolCalls, respCalls, rateCalls, connReq, vReq, preVars, allowedAt, buckets, now, sessVars, store, dispVars,
                   viewerSSEClients, vHealth, vFrames, vHbTimers, vTicks,
                   vResp, connectedClients, wsFrames, vrmState, npub,
                   lastPublish, recentEvents, nlog>>

\* ws 'close' / 'error' listener
WsCloseEvent(w) ==
    /\ wsHealth[w] = "closed"
    /\ w \in SeqRange(connectedClients)
    /\ connectedClients' = SeqRemove(connectedClients, w)
    /\ UNCHANGED <<cfgVars, toolCalls, respCalls, rateCalls, connReq, vReq, preVars, allowedAt, buckets, now, sessVars, store, dispVars,
                   viewerSSEClients, vHealth, vFrames, vHbTimers, vTicks,
                   vResp, wsHealth, wsFrames, vrmState, npub, lastPublish,
                   recentEvents, nlog>>

(* ------------------------------ broadcast ------------------------------ *)
\* position in connectedClients of the first client whose send() throws,
\* 0 when no send throws: forEach stops there and the exception leaves
\* broadcast
FirstThrow ==
    LET bad == {i \in 1..Len(connectedClients) :
                   wsHealth[connectedClients[i]] = "broken"}
    IN IF bad = {} THEN 0 ELSE CHOOSE i \in bad : \A j \in bad : i <= j

BroadcastRaises == FirstThrow # 0

\* WebSocket clients whose send() was called and returned
WsSent ==
    {connectedClients[i] : i \in
        {j \in 1..Len(connectedClients) :
            /\ wsHealth[connectedClients[j]] = "open"
            /\ (FirstThrow = 0 \/ j < FirstThrow)}}

\* viewer streams on which write() was called by broadcastSSE
SseWrote ==
    IF BroadcastRaises THEN {}
    ELSE {v \in viewerSSEClients : SseWritable(v)}

\* viewer streams whose write() returned (totals.writable)
SseDelivered == {v \in SseWrote : vHealth[v] = "open"}

SseFramesReversed(msgs) ==
    [i \in 1..Len(msgs) |->
        SseFrame(msgs[Len(msgs) + 1 - i].type, msgs[Len(msgs) + 1 - i].data)]

SseFrames(msgs) == [i \in 1..Len(msgs) |-> SseFrame(msgs[i].type, msgs[i].data)]
WsFrames(msgs) == [i \in 1..Len(msgs) |-> WsFrame(msgs[i].type, msgs[i].data)]

\* the broadcast calls of one state-service operation followed by its
\* logEvent; the first raising broadcast ends the operation
Publish(op, msgs, entry) ==
    /\ wsFrames' = [w \in WsClients |->
          IF w \in WsSent
          THEN wsFrames[w] \o
                 (IF BroadcastRaises THEN <<WsFrames(msgs)[1]>> ELSE WsFrames(msgs))
          ELSE wsFrames[w]]
    /\ vFrames' = [v \in Viewers |->
          IF v \in SseDelivered THEN vFrames[v] \o SseFrames(msgs) ELSE vFrames[v]]
    /\ nlog' = IF BroadcastRaises THEN nlog ELSE nlog + 1
    /\ recentEvents' =
          IF BroadcastRaises THEN recentEvents ELSE LogEvent(recentEvents, entry)
    /\ lastPublish' = [op |-> op,
                       outcome |-> IF BroadcastRaises THEN "raised" ELSE "ok",
                       msgs |-> msgs,
                       calls |-> IF BroadcastRaises THEN <<msgs[1]>> ELSE msgs,
                       wrote |-> SseWrote, failed |-> SseWrote \ SseDelivered,
                       sent |-> WsSent]

Rejected(op) ==
    [op |-> op, outcome |-> "rejected", msgs |-> <<>>, calls |-> <<>>,
     wrote |-> {}, failed |-> {}, sent |-> {}]

Msg(type, data) == [type |-> type, data |-> data]

(* ---------------------------- state service ---------------------------- *)
Models == {"a.vrm"}

\* VRMService.loadVRMModel
LoadVRMModel(file, accessible) ==
    /\ npub' = npub + 1
    /\ IF accessible
       THEN /\ vrmState' = [vrmState EXCEPT !.modelPath = file, !.isLoaded = TRUE]
            /\ Publish("load_vrm_model",
                       <<Msg("load_model", <<"/models/", file>>),
                         Msg("load_vrm_model", <<"/models/", file>>)>>,
                       <<"load_vrm_model", file>>)
       ELSE /\ lastPublish' = Rejected("load_vrm_model")
            /\ UNCHANGED <<vrmState, wsFrames, vFrames, recentEvents, nlog>>
    /\ UNCHANGED <<cfgVars, toolCalls, respCalls, rateCalls, connReq, vReq, preVars, allowedAt, buckets, now, sessVars, store, dispVars,
                   viewerSSEClients, vHealth, vHbTimers, vTicks, vResp,
                   connectedClients, wsHealth>>

\* VRMService.stopGLTFAnimation
StopGLTFAnimation ==
    /\ npub' = npub + 1
    /\ Publish("stop_gltf_animation",
               <<Msg("stop_animation", <<>>), Msg("stop_gltf_animation", <<>>)>>,
               <<"stop_gltf_animation">>)
    /\ UNCHANGED <<cfgVars, toolCalls, respCalls, rateCalls, connReq, vReq, preVars, allowedAt, buckets, now, sessVars, store, dispVars,
                   viewerSSEClients, vHealth, vHbTimers, vTicks, vResp,
                   connectedClients, wsHealth, vrmState>>

Animations == {"wave"}
AnimFiles == {"wave.vrma"}

\* if (!loadedAnimations.includes(animationName)) loadedAnimations.push(..)
PushAlways(list, animationName) == Append(list, animationName)
PushIfAbsent(list, animationName) ==
    IF animationName \in SeqRange(list) THEN list ELSE Append(list, animationName)

\* VRMService.loadGLTFAnimation
LoadGLTFAnimation(animationPath, animationName, accessible) ==
    /\ npub' = npub + 1
    /\ IF accessible
       THEN /\ vrmState' =
                 [vrmState EXCEPT !.loadedAnimations =
                     PushIfAbsent(@, animationName)]
            /\ Publish("load_gltf_animation",
                       <<Msg("load_animation",
                             <<"/animations/", animationPath, animationName>>),
                         Msg("load_gltf_animation",
                             <<"/animations/", animationPath, animationName>>)>>,
                       <<"load_gltf_animation", animationName, animationPath>>)
       ELSE /\ lastPublish' = Rejected("load_gltf_animation")
            /\ UNCHANGED <<vrmState, wsFrames, vFrames, recentEvents, nlog>>
    /\ UNCHANGED <<cfgVars, toolCalls, respCalls, rateCalls, connReq, vReq, preVars, allowedAt, buckets, now, sessVars, store,
                   dispVars, viewerSSEClients, vHealth, vHbTimers, vTicks,
                   vResp, connectedClients, wsHealth>>

\* the two guards of playGLTFAnimation
PlayRejectsNoModelOnly(animationName) == ~vrmState.isLoaded
PlayRejects(animationName) ==
    \/ ~vrmState.isLoaded
    \/ animationName \notin SeqRange(vrmState.loadedAnimations)

\* VRMService.playGLTFAnimation
PlayGLTFAnimation(animationName, loop) ==
    /\ npub' = npub + 1
    /\ IF PlayRejects(animationName)
       THEN /\ lastPublish' = Rejected("play_gltf_animation")
            /\ UNCHANGED <<wsFrames, vFrames, recentEvents, nlog>>
       ELSE Publish("play_gltf_animation",
                    <<Msg("play_animation", <<animationName, loop>>),
                      Msg("play_gltf_animation", <<animationName, loop>>)>>,
                    <<"play_gltf_animation", animationName, loop>>)
    /\ UNCHANGED <<cfgVars, toolCalls, respCalls, rateCalls, connReq, vReq, preVars, allowedAt, buckets, now, sessVars, store,
                   dispVars, viewerSSEClients, vHealth, vHbTimers, vTicks,
                   vResp, connectedClients, wsHealth, vrmState>>

(* ------------------------------ initial state -------------------------- *)
\* a caller that already exhausted its bucket (60 rejected dispatches in the
\* same instant change nothing else)
DrainedBucket == [tokens |-> DZero, lastRefill |-> 0]
InitBuckets == [k \in {"ipB"} |-> DrainedBucket]

NoResponses == [conn |-> [c \in Conns |-> <<>>],
                viewer |-> [v \in Viewers |-> <<>>],
                post |-> <<>>, options |-> <<>>]
NoReq == Req("", "", NoOrigin, NoOrigin, "")
NoHeaders == <<>>
NoPreflight == [endpoint |-> "none", req |-> NoReq, status |-> 0,
                headers |-> NoHeaders]
NoDispatch == [sid |-> NoId, status |-> 0, fwd |-> 0, req |-> NoReq,
               threw |-> FALSE, body |-> ""]

\* environment read by the constructor: a shared secret, the default origins
InitAccess ==
    /\ mcpApiKey = Secret
    /\ allowedOrigins = DefaultOrigins

\* new RateLimiter(60, 1)
InitLimiter ==
    /\ maxTokens = DefaultMaxTokens
    /\ refillRate = DefaultRefillRate
    /\ buckets = InitBuckets

InitRest ==
    /\ storeAvailable \in BOOLEAN
    /\ now = 0
    /\ rateCalls = <<>>
    /\ allowedAt = <<>>
    /\ sseTransports = <<>>
    /\ pc = [c \in Conns |-> "idle"]
    /\ sessionId = [c \in Conns |-> NoId]
    /\ usedIds = {}
    /\ writable = [c \in Conns |-> TRUE]
    /\ closeEmitted = [c \in Conns |-> FALSE]
    /\ closeListeners = [c \in Conns |-> {}]
    /\ closePc = [c \in Conns |-> "none"]
    /\ hbTimers = [c \in Conns |-> 0]
    /\ hbCancels = [c \in Conns |-> 0]
    /\ ticks = [c \in Conns |-> 0]
    /\ extendCalls = [c \in Conns |-> 0]
    /\ sessFrames = [c \in Conns |-> <<>>]
    /\ resp = [c \in Conns |-> 0]
    /\ store = {ForeignId}       \* another instance mirrors a session of its own
    /\ deleteIssued = {}
    /\ connReq = [c \in Conns |-> NoReq]
    /\ vReq = [v \in Viewers |-> NoReq]
    /\ npre = 0
    /\ lastPreflight = NoPreflight
    /\ ndisp = 0
    /\ lastDispatch = NoDispatch
    /\ viewerSSEClients = {}
    /\ vHealth = [v \in Viewers |-> "new"]
    /\ vFrames = [v \in Viewers |-> <<>>]
    /\ vHbTimers = [v \in Viewers |-> 0]
    /\ vTicks = [v \in Viewers |-> 0]
    /\ vResp = [v \in Viewers |-> 0]
    /\ connectedClients = <<>>
    /\ wsHealth = [w \in WsClients |-> "new"]
    /\ wsFrames = [w \in WsClients |-> <<>>]
    /\ vrmState = [modelPath |-> "lvncer.vrm", isLoaded |-> TRUE,
                   loadedAnimations |-> <<>>]
    /\ npub = 0
    /\ lastPublish = Rejected("none")
    /\ recentEvents = <<>>
    /\ nlog = 0
    /\ respCalls = NoResponses
    /\ toolCalls = <<>>

Init == InitAccess /\ InitLimiter /\ InitRest

\* session lifecycle: establish, heartbeat, close
Next ==
    \/ \E c \in Conns, req \in Requests : Establish(c, req)
    \/ \E c \in Conns : SaveDone(c)
    \/ \E c \in Conns : ConnectOk(c)
    \/ \E c \in Conns : ConnectFail(c)
    \/ \E c \in Conns : ConnDrop(c)
    \/ \E c \in Conns : CloseEmit(c)
    \/ \E c \in Conns : CloseCont(c)
    \/ \E c \in Conns : HeartbeatTick(c)

Spec == Init /\ [][Next]_vars

\* session lifecycle of accepted connections with POSTed messages arriving
\* at any point
DispatchNext ==
    \/ \E c \in Conns : Establish(c, ReqHdr)
    \/ \E c \in Conns : SaveDone(c)
    \/ \E c \in Conns : ConnectOk(c)
    \/ \E c \in Conns : ConnectFail(c)
    \/ \E c \in Conns : ConnDrop(c)
    \/ \E c \in Conns : CloseEmit(c)
    \/ \E c \in Conns : CloseCont(c)
    \/ \E req \in {ReqHdr, ReqEvil}, sid \in DispatchIds, throws \in BOOLEAN :
          Dispatch(req, sid, throws)

DispatchSpec == Init /\ [][DispatchNext]_vars

\* the rate limiter on its own: check() calls for one key while time passes
RateKeys == {"k1"}
RateCaps == {1, 2}
RateRates == {1, 3}

RateInit ==
    /\ InitAccess
    /\ maxTokens \in RateCaps
    /\ refillRate \in RateRates
    /\ buckets = <<>>
    /\ InitRest

\* what the calls made so far for a key looked like: the results of the
\* calls made at the instant of its first call, the instant of the earliest
\* denied call since the last allowed one (-1: none), and the last call
NoCalls == [firstAt |-> now, burst |-> <<>>, denyAt |-> -1, lastAt |-> -1,
            last |-> TRUE]

RateCheck(key) ==
    LET old == IF key \in DOMAIN rateCalls THEN rateCalls[key] ELSE NoCalls
        allowed == RateCheckAllow(key)
    IN /\ now = old.firstAt => Len(old.burst) <= maxTokens
       /\ buckets' = RateCheckBuckets(key)
       /\ rateCalls' = MapSet(rateCalls, key,
            [firstAt |-> old.firstAt,
             burst |-> IF now = old.firstAt THEN Append(old.burst, allowed)
                       ELSE old.burst,
             denyAt |-> IF allowed THEN -1
                        ELSE IF old.denyAt = -1 THEN now ELSE old.denyAt,
             lastAt |-> now,
             last |-> allowed])
       /\ UNCHANGED <<cfgVars, toolCalls, respCalls, connReq, vReq, preVars, now, sessVars, store,
                      dispVars, hubVars, recentEvents, nlog>>

\* time passes
Advance ==
    /\ now + ClockStep <= MaxClock
    /\ now' = now + ClockStep
    /\ UNCHANGED <<cfgVars, toolCalls, respCalls, rateCalls, connReq, vReq, preVars, allowedAt, buckets, sessVars, store,
                   dispVars, hubVars, recentEvents, nlog>>

RateNext ==
    \/ \E key \in RateKeys : RateCheck(key) /\ UNCHANGED allowedAt
    \/ Advance

RateSpec == RateInit /\ [][RateNext]_vars

\* two callers sharing one limiter
PairKeys == {"k1", "k2"}

PairStride == 5      \* clock steps between two calls of the pair

PairAdvance ==
    /\ now + PairStride * ClockStep <= MaxClock
    /\ now' = now + PairStride * ClockStep
    /\ UNCHANGED <<cfgVars, toolCalls, respCalls, rateCalls, connReq, vReq, preVars, allowedAt, buckets, sessVars,
                   store, dispVars, hubVars, recentEvents, nlog>>

PairNext ==
    \/ \E key \in PairKeys : RateCheck(key) /\ UNCHANGED allowedAt
    \/ PairAdvance

\* one caller, with the instants of its allowed calls kept
LoggedCheck(key) ==
    /\ RateCheck(key)
    /\ allowedAt' = IF RateCheckAllow(key) THEN Append(allowedAt, now)
                    ELSE allowedAt

BoundNext ==
    \/ \E key \in RateKeys : LoggedCheck(key)
    \/ Advance

BoundSpec == RateInit /\ [][BoundNext]_vars

PairSpec == RateInit /\ [][PairNext]_vars

\* the access gate on its own: requests of every shape against every
\* configuration of the secret and of the allow-list
Wildcard == <<"*">>
OriginLocalLong == <<"http://localhost:3000", "0">>     \* http://localhost:30000
WrongKey == "wrong"

ReqKeyQuery == Req("", Secret, NoOrigin, NoOrigin, "ipA")
ReqKeyBoth == Req(WrongKey, Secret, NoOrigin, NoOrigin, "ipA")
ReqOriginLong == Req(Secret, "", OriginLocalLong, NoOrigin, "ipA")
ReqRefererEvil == Req(Secret, "", NoOrigin, OriginEvil, "ipA")
ReqOriginOverReferer == Req(Secret, "", OriginLocal, OriginEvil, "ipA")
ReqAllWrong == Req("", "", OriginEvil, NoOrigin, "ipB")
ReqEvilDrained == Req("", Secret, OriginEvil, NoOrigin, "ipB")

GateRequests ==
    Requests \cup {ReqKeyQuery, ReqKeyBoth, ReqOriginLong, ReqRefererEvil,
                   ReqOriginOverReferer, ReqAllWrong, ReqEvilDrained}

GateInit ==
    /\ mcpApiKey \in {NoKey, Secret}
    /\ allowedOrigins \in {DefaultOrigins, {Wildcard}, {OriginVite}}
    /\ InitLimiter
    /\ InitRest
    /\ ~storeAvailable

GateNext ==
    \/ \E c \in Conns, req \in GateRequests : Establish(c, req)
    \/ \E req \in GateRequests : Dispatch(req, 1, FALSE)

GateSpec == GateInit /\ [][GateNext]_vars

\* the store is down: establish, heartbeat, dispatch and teardown together
StoreDownInit == Init /\ ~storeAvailable

StoreDownNext ==
    \/ \E c \in Conns : Establish(c, ReqHdr)
    \/ \E c \in Conns : ConnectOk(c)
    \/ \E c \in Conns : ConnectFail(c)
    \/ \E c \in Conns : ConnDrop(c)
    \/ \E c \in Conns : CloseEmit(c)
    \/ \E c \in Conns : HeartbeatTick(c)
    \/ \E sid \in DispatchIds, throws \in BOOLEAN : Dispatch(ReqHdr, sid, throws)

StoreDownSpec == StoreDownInit /\ [][StoreDownNext]_vars

\* CORS preflight next to sessions being established
PreflightInit ==
    /\ mcpApiKey \in {NoKey, Secret}
    /\ allowedOrigins \in {DefaultOrigins, {Wildcard}, {OriginVite}}
    /\ InitLimiter
    /\ InitRest

PreflightNext ==
    \/ \E c \in Conns : Establish(c, ReqHdr)
    \/ \E c \in Conns : SaveDone(c)
    \/ \E c \in Conns : ConnectOk(c)
    \/ \E e \in Endpoints, req \in GateRequests : Options(e, req)

PreflightSpec == PreflightInit /\ [][PreflightNext]_vars

\* the event log on its own: one logEvent call after the other, each entry
\* carrying the ordinal of its call
LogAppend ==
    /\ nlog < MaxAppends
    /\ nlog' = nlog + 1
    /\ recentEvents' = LogEvent(recentEvents, <<"probe", nlog + 1>>)
    /\ UNCHANGED <<cfgVars, toolCalls, respCalls, rateCalls, connReq, vReq, preVars, allowedAt, buckets, now, sessVars, store,
                   dispVars, hubVars>>

LogNext == LogAppend

LogSpec == Init /\ [][LogNext]_vars

\* the fan-out hub: viewer streams, WebSocket clients and the state service
HubInit == Init /\ ~storeAvailable

\* viewer requests: accepted, foreign origin, exhausted caller
ViewerRequests == {ReqHdr, ReqEvil, ReqDrained}

HubNext ==
    \/ \E v \in Viewers, req \in ViewerRequests : ViewerConnect(v, req)
    \/ \E v \in Viewers : ViewerBreak(v)
    \/ \E v \in Viewers : ViewerDrop(v)
    \/ \E v \in Viewers : ViewerCloseEvent(v)
    \/ \E w \in WsClients : WsConnect(w)
    \/ \E w \in WsClients : WsBreak(w)
    \/ \E w \in WsClients : WsDrop(w)
    \/ \E w \in WsClients : WsCloseEvent(w)
    \/ /\ npub < MaxPublish
       /\ \E file \in Models, accessible \in BOOLEAN :
              LoadVRMModel(file, accessible)
    \/ npub < MaxPublish /\ StopGLTFAnimation

HubSpec == HubInit /\ [][HubNext]_vars

\* the four mutations of the state service in front of a small audience
ServiceNext ==
    \/ \E v \in Viewers, req \in Requests : ViewerConnect(v, req)
    \/ \E w \in WsClients : WsConnect(w)
    \/ \E w \in WsClients : WsBreak(w)
    \/ /\ npub < MaxServiceCalls
       /\ \E file \in Models, accessible \in BOOLEAN :
              LoadVRMModel(file, accessible)
    \/ /\ npub < MaxServiceCalls
       /\ \E f \in AnimFiles, a \in Animations, accessible \in BOOLEAN :
              LoadGLTFAnimation(f, a, accessible)
    \/ /\ npub < MaxServiceCalls
       /\ \E a \in Animations, loop \in BOOLEAN : PlayGLTFAnimation(a, loop)
    \/ npub < MaxServiceCalls /\ StopGLTFAnimation

ServiceSpec == HubInit /\ [][ServiceNext]_vars

(* ------------------------------ tool calls ----------------------------- *)
MaxToolCalls == 2   \* tools/call requests considered

\* the names the switch of the CallToolRequestSchema handler knows
ToolNames == {"load_vrm_model", "set_vrm_expression", "set_vrm_pose",
              "animate_vrm_bone", "get_vrm_status", "list_vrm_files",
              "load_gltf_animation", "play_gltf_animation",
              "stop_gltf_animation"}
OtherNames == {"load_model", "no_such_tool"}

\* ErrorCode of the protocol SDK
MethodNotFound == -32601
InternalError == -32603

Returned == [kind |-> "result", code |-> 0, message |-> <<>>]
Thrown(code, message) == [kind |-> "throw", code |-> code, message |-> message]

\* the switch inside the try: a known tool runs and returns or throws an
\* Error; the default case throws McpError(MethodNotFound)
ToolSwitch(name, threw) ==
    IF name \in ToolNames
    THEN IF threw THEN Thrown(0, <<"tool failed">>) ELSE Returned
    ELSE Thrown(MethodNotFound, <<"MCP error -32601", "Unknown tool", name>>)

\* the catch around the switch rethrows whatever was thrown as
\* McpError(InternalError, "Tool execution failed: " + message)
CallToolResult(name, threw) ==
    LET r == ToolSwitch(name, threw)
    IN IF r.kind = "throw"
       THEN [kind |-> "error", code |-> InternalError,
             message |-> <<"Tool execution failed">> \o r.message]
       ELSE r

CallTool(name, threw) ==
    /\ Len(toolCalls) < MaxToolCalls
    /\ toolCalls' = Append(toolCalls, [name |-> name, threw |-> threw,
                                       result |-> CallToolResult(name, threw)])
    /\ UNCHANGED <<cfgVars, buckets, now, rateCalls, allowedAt, sessVars, store,
                   connReq, vReq, dispVars, preVars, hubVars, recentEvents,
                   nlog, respCalls>>

ToolNext ==
    \/ \E name \in ToolNames, threw \in BOOLEAN : CallTool(name, threw)
    \/ \E name \in OtherNames : CallTool(name, FALSE)

ToolSpec == Init /\ [][ToolNext]_vars

(* ------------------------------ viewer scene --------------------------- *)
\* client/AppR3F.tsx: the clips the viewer holds after handling the event
\* frames of its stream in order, every load having succeeded
SceneModels == {"a.vrm", "b.glb"}
Extension == [f \in SceneModels |-> IF f = "a.vrm" THEN ".vrm" ELSE ".glb"]

\* onLoadModel: .vrm paths are ignored; loadModel clears the loaded clips
SceneLoadModel(clips, file) == IF Extension[file] = ".vrm" THEN clips ELSE {}

\* onLoadAnimation: loadedClipsRef.current.set(animationName, clip)
SceneLoadAnimation(clips, animationName) == clips \cup {animationName}

SceneHandle(clips, frame) ==
    IF frame[1] # "event" THEN clips
    ELSE IF frame[2] = "load_model" THEN SceneLoadModel(clips, frame[3][2])
    ELSE IF frame[2] = "load_animation" THEN SceneLoadAnimation(clips, frame[3][3])
    ELSE clips

RECURSIVE SceneClips(_, _)
SceneClips(frames, n) ==
    IF n = 0 THEN {} ELSE SceneHandle(SceneClips(frames, n - 1), frames[n])

\* playAnimation: loadedClipsRef.current.get(animationName) finds a clip
ScenePlays(frames, animationName) == animationName \in SceneClips(frames, Len(frames))

\* one viewer connected from the start, then state-service operations
MaxSceneCalls == 3
SceneNext ==
    \/ \E v \in Viewers : ViewerConnect(v, ReqHdr)
    \/ /\ npub < MaxSceneCalls /\ viewerSSEClients = Viewers
       /\ \E file \in SceneModels : LoadVRMModel(file, TRUE)
    \/ /\ npub < MaxSceneCalls /\ viewerSSEClients = Viewers
       /\ \E f \in AnimFiles, a \in Animations, accessible \in BOOLEAN :
              LoadGLTFAnimation(f, a, accessible)
    \/ /\ npub < MaxSceneCalls /\ viewerSSEClients = Viewers
       /\ \E a \in Animations, loop \in BOOLEAN : PlayGLTFAnimation(a, loop)
    \/ npub < MaxSceneCalls /\ viewerSSEClients = Viewers /\ StopGLTFAnimation

SceneSpec == HubInit /\ [][SceneNext]_vars

\* viewer streams failing and closing under publishes; a stream whose
\* writes fail was dropped by the transport layer, which closes its socket,
\* and the event loop runs the 'close' listener of a closed request
LiveNext ==
    \/ \E v \in Viewers : ViewerConnect(v, ReqHdr)
    \/ \E v \in Viewers : ViewerBreak(v)
    \/ \E v \in Viewers : ViewerDrop(v)
    \/ \E v \in Viewers : ViewerCloseEvent(v)
    \/ \E w \in WsClients : WsConnect(w)
    \/ \E w \in WsClients : WsDrop(w)
    \/ \E w \in WsClients : WsCloseEvent(w)
    \/ /\ npub < MaxPublish
       /\ \E file \in Models : LoadVRMModel(file, TRUE)
    \/ npub < MaxPublish /\ StopGLTFAnimation

LiveFairness ==
    \A v \in Viewers :
        /\ WF_vars(vHealth[v] = "broken" /\ ViewerDrop(v))
        /\ WF_vars(ViewerCloseEvent(v))

LiveSpec == HubInit /\ [][LiveNext]_vars /\ LiveFairness

(* ============================ properties ============================== *)
Registered(c) == sessionId[c] # NoId
\* the catch block or the teardown listener has run for c
TornDown(c) == closePc[c] # "none" \/ (pc[c] = "done" /\ resp[c] = 0)
PingCount(c) == Cardinality({i \in 1..Len(sessFrames[c]) : sessFrames[c][i] = "ping"})
\* a tick found the response unwritable and cleared its own interval
SelfCancelled(c) == ticks[c] > PingCount(c)
GateRejected(status) == status \in {401, 403, 429}

C3_NoReuse ==
    [][\A id \in LocalIds :
          ((\E c \in Conns : sessionId[c] = id) /\ id \notin DOMAIN sseTransports) =>
              /\ id \notin DOMAIN sseTransports'
              /\ \A c \in Conns : sessionId'[c] = id => sessionId[c] = id
              /\ (ndisp' # ndisp /\ lastDispatch'.sid = id) => lastDispatch'.fwd = 0]_vars

C3_Witness ==
    /\ sessionId[1] = 1
    /\ 1 \notin DOMAIN sseTransports
    /\ lastDispatch.sid = 1
    /\ lastDispatch.status = 404
    /\ 2 \in DOMAIN sseTransports

\* C4: once the connection of a registered session has closed and every step
\* that was pending for it has run, its id is absent from the local map, no
\* heartbeat timer is scheduled and (store available) a store delete was issued.
Settled(c) ==
    /\ Registered(c)
    /\ closeEmitted[c]
    /\ pc[c] = "done"
    /\ closePc[c] # "deleting"
    /\ hbTimers[c] = 0

C4_TeardownOnClose ==
    \A c \in Conns :
        Settled(c) =>
            /\ sessionId[c] \notin DOMAIN sseTransports
            /\ storeAvailable => sessionId[c] \in deleteIssued

\* C5: after a heartbeat tick found the transport unwritable (and the close
\* event has been delivered), the session id is gone from the local map and
\* (store available) its store mirror is deleted.
C5_HeartbeatTeardown ==
    \A c \in Conns :
        (SelfCancelled(c) /\ closeEmitted[c]) =>
            /\ sessionId[c] \notin DOMAIN sseTransports
            /\ storeAvailable => sessionId[c] \notin store

\* C6: every heartbeat tick of a session whose response is writable writes
\* one ': ping' frame to that session's stream and, when the store is
\* available, issues one TTL renewal for that session.
C6_TickPingsAndRenews ==
    [][\A c \in Conns :
          (ticks'[c] # ticks[c] /\ writable[c]) =>
              /\ sessFrames'[c] = Append(sessFrames[c], "ping")
              /\ storeAvailable => extendCalls'[c] = extendCalls[c] + 1
              /\ hbTimers'[c] = hbTimers[c]]_vars

C6_Witness ==
    \E c \in Conns :
        /\ storeAvailable
        /\ extendCalls[c] = 1
        /\ sessFrames[c] = <<"endpoint", "ping">>

\* C7: a session never has more than one heartbeat timer; a cancellation
\* leaves no timer, a cancelled timer is never restarted and never ticks
\* again, and a second cancellation changes nothing.
C7_SingleHeartbeat ==
    [][\A c \in Conns :
          /\ hbTimers'[c] <= 1
          /\ hbCancels'[c] > hbCancels[c] => hbTimers'[c] = 0
          /\ hbCancels[c] > 0 => (hbTimers'[c] = 0 /\ ticks'[c] = ticks[c])]_vars

C7_Witness ==
    \E c \in Conns : hbCancels[c] = 2 /\ hbTimers[c] = 0 /\ SelfCancelled(c)

(* ------------------------- fan-out properties -------------------------- *)
WsRegistered == SeqRange(connectedClients)
Published == npub' # npub /\ lastPublish'.outcome # "rejected"

\* C8: a publish never raises to the state service and reaches every
\* registered connection of both audience sets whose writes succeed, whatever
\* happens to the writes on the other registered connections.
C8_PublishIsolation ==
    [][Published =>
         /\ lastPublish'.outcome = "ok"
         /\ \A v \in viewerSSEClients :
               vHealth[v] = "open" =>
                   vFrames'[v] = vFrames[v] \o SseFrames(lastPublish'.msgs)
         /\ \A w \in WsRegistered :
               wsHealth[w] = "open" =>
                   wsFrames'[w] = wsFrames[w] \o WsFrames(lastPublish'.msgs)]_vars

\* C9: a publish never writes to a registered connection that was closed
\* out-of-band, and with K registered connections of which J are closed (the
\* others accepting writes) it completes without raising and delivers to
\* exactly K - J connections, one frame per published message each.
C9_ClosedSkipped ==
    [][Published =>
         LET closedS == {v \in viewerSSEClients : vHealth[v] = "closed"}
             closedW == {w \in WsRegistered : wsHealth[w] = "closed"}
             K == Cardinality(viewerSSEClients) + Cardinality(WsRegistered)
             J == Cardinality(closedS) + Cardinality(closedW)
             gotS == {v \in Viewers : vFrames'[v] # vFrames[v]}
             gotW == {w \in WsClients : wsFrames'[w] # wsFrames[w]}
             noThrow == /\ \A v \in viewerSSEClients : vHealth[v] # "broken"
                        /\ \A w \in WsRegistered : wsHealth[w] # "broken"
         IN /\ \A v \in closedS :
                  v \notin lastPublish'.wrote /\ vFrames'[v] = vFrames[v]
            /\ \A w \in closedW :
                  w \notin lastPublish'.sent /\ wsFrames'[w] = wsFrames[w]
            /\ noThrow =>
                  /\ lastPublish'.outcome = "ok"
                  /\ Cardinality(gotS) + Cardinality(gotW) = K - J
                  /\ \A v \in gotS :
                        vFrames'[v] = vFrames[v] \o SseFrames(lastPublish'.msgs)
                  /\ \A w \in gotW :
                        wsFrames'[w] = wsFrames[w] \o WsFrames(lastPublish'.msgs)]_vars

C9_Witness ==
    /\ recentEvents = <<<<"viewer_sse_connected">>, <<"stop_gltf_animation">>>>
    /\ viewerSSEClients = {1}
    /\ vHealth[1] = "closed"
    /\ connectedClients = <<1>>
    /\ wsHealth[1] = "open"
    /\ lastPublish.outcome = "ok"
    /\ lastPublish.wrote = {}
    /\ lastPublish.sent = {1}
    /\ Len(vFrames[1]) = 3
    /\ Len(wsFrames[1]) = 3

\* C10: every viewer stream that passed the gate starts with the retry
\* directive followed by one init event carrying modelPath and isLoaded as
\* they were at registration; no other frame ever precedes or replaces them.
IsInit(f) == f[1] = "event" /\ f[2] = "init"

C10_InitFirst ==
    [][\A v \in Viewers :
          vFrames'[v] # <<>> =>
              /\ vResp'[v] = 200
              /\ Len(vFrames'[v]) >= 2
              /\ vFrames'[v][1] = RetryFrame
              /\ IsInit(vFrames'[v][2])
              /\ \A i \in 3..Len(vFrames'[v]) : ~IsInit(vFrames'[v][i])
              /\ vFrames[v] = <<>> =>
                    /\ vFrames'[v][2] = SseFrame("init", InitData)
                    /\ v \in viewerSSEClients'
              /\ vFrames[v] # <<>> =>
                    SubSeq(vFrames'[v], 1, Len(vFrames[v])) = vFrames[v]]_vars

C10_Witness ==
    /\ vFrames[1] = <<RetryFrame,
                      SseFrame("init", <<"lvncer.vrm", TRUE>>),
                      SseFrame("load_vrm_model", <<"/models/", "lvncer.vrm">>),
                      SseFrame("load_model", <<"/models/", "a.vrm">>),
                      SseFrame("load_vrm_model", <<"/models/", "a.vrm">>)>>
(* --------------------------- late joiners ------------------------------ *)
EventFrames(frames) == SelectSeq(frames, LAMBDA f : f[1] = "event")
Registers(v) == vFrames[v] = <<>> /\ vFrames'[v] # <<>>

\* C11 (as stated): the init snapshot is the only event frame a viewer
\* stream receives at registration, and until the next publish it receives
\* no further event frame.
C11_SnapshotOnly ==
    [][\A v \in Viewers :
          /\ Registers(v) =>
                EventFrames(vFrames'[v]) = <<SseFrame("init", InitData)>>
          /\ (vFrames[v] # <<>> /\ ~Published) =>
                EventFrames(vFrames'[v]) = EventFrames(vFrames[v])]_vars

\* C11 (amended): at registration a viewer stream receives the init
\* snapshot followed, when a model path is set, by one load_vrm_model frame
\* built from the current model path; nothing of an earlier publish is
\* replayed, and until the next publish it receives no further event frame.
C11_SnapshotAndCurrentModel ==
    [][\A v \in Viewers :
          /\ Registers(v) =>
                EventFrames(vFrames'[v]) =
                    <<SseFrame("init", <<vrmState.modelPath, vrmState.isLoaded>>)>>
                    \o (IF vrmState.modelPath # Null
                        THEN <<SseFrame("load_vrm_model",
                                        <<"/models/", vrmState.modelPath>>)>>
                        ELSE <<>>)
          /\ (vFrames[v] # <<>> /\ ~Published) =>
                EventFrames(vFrames'[v]) = EventFrames(vFrames[v])]_vars

\* a viewer that joined after a stop was published sees no stop frame
C11_Witness ==
    /\ lastPublish.op = "stop_gltf_animation"
    /\ lastPublish.outcome = "ok"
    /\ vFrames[1] = <<RetryFrame,
                      SseFrame("init", <<"lvncer.vrm", TRUE>>),
                      SseFrame("load_vrm_model", <<"/models/", "lvncer.vrm">>)>>
(* ------------------------ frames per mutation -------------------------- *)
\* the state service changed the state and went on to publish
Mutated == npub' # npub /\ lastPublish'.outcome # "rejected"

\* C12: on every registered viewer stream that accepts writes, each state
\* mutation appends exactly one event frame per published type name (the
\* current name and its alias), none lost and none duplicated.
C12_OneFramePerName ==
    [][Mutated =>
         \A v \in viewerSSEClients :
             vHealth[v] = "open" =>
                 /\ Len(vFrames'[v]) = Len(vFrames[v]) + Len(lastPublish'.msgs)
                 /\ \A i \in 1..Len(lastPublish'.msgs) :
                       vFrames'[v][Len(vFrames[v]) + i] =
                           SseFrame(lastPublish'.msgs[i].type,
                                    lastPublish'.msgs[i].data)]_vars

(* ------------------------------ ordering ------------------------------- *)
RECURSIVE IsSubseq(_, _)
IsSubseq(a, b) ==
    IF a = <<>> THEN TRUE
    ELSE IF b = <<>> THEN FALSE
    ELSE IF Head(a) = Head(b) THEN IsSubseq(Tail(a), Tail(b))
    ELSE IsSubseq(a, Tail(b))

\* C14: what a step writes to a viewer stream after its handshake is
\* appended behind the frames already written and is, in the same order, a
\* subsequence of the publish calls of that step; so the frames of a stream
\* are a subsequence of the publish call sequence.
C14_PublishOrder ==
    [][\A v \in Viewers :
          vFrames[v] # <<>> =>
              LET old == Len(vFrames[v])
                  calls == lastPublish'.calls
                  issued == [i \in 1..Len(calls) |->
                               SseFrame(calls[i].type, calls[i].data)]
              IN /\ Len(vFrames'[v]) >= old
                 /\ SubSeq(vFrames'[v], 1, old) = vFrames[v]
                 /\ Len(vFrames'[v]) > old =>
                       /\ npub' # npub
                       /\ IsSubseq(SubSeq(vFrames'[v], old + 1, Len(vFrames'[v])),
                                   issued)]_vars

C14_Witness ==
    /\ Len(vFrames[1]) = 5
    /\ vFrames[1][4] = SseFrame("stop_animation", <<>>)
    /\ vFrames[1][5] = SseFrame("stop_gltf_animation", <<>>)
(* ------------------------------ aliasing ------------------------------- *)
\* current (generic) type name published next to each legacy name
GenericName(op) ==
    CASE op = "load_vrm_model" -> "load_model"
      [] op = "load_gltf_animation" -> "load_animation"
      [] op = "play_gltf_animation" -> "play_animation"
      [] op = "stop_gltf_animation" -> "stop_animation"

\* C13: each load-model, load-animation, play-animation and stop-animation
\* mutation issues two publish calls, the first under the generic name and
\* the second under the legacy name, both with the same payload, and
\* appends exactly one log entry.
C13_TwoAliasesOneEntry ==
    [][Mutated =>
         LET p == lastPublish'
         IN /\ Len(p.calls) = 2
            /\ p.calls[1].type = GenericName(p.op)
            /\ p.calls[2].type = p.op
            /\ p.calls[1].data = p.calls[2].data
            /\ Len(recentEvents') = Len(recentEvents) + 1
            /\ recentEvents'[Len(recentEvents')][1] = p.op]_vars
(* ----------------------------- ring buffer ----------------------------- *)
\* C15: after n appends the log holds exactly the last min(n, 100) appended
\* entries in their original order, and it never holds more than 100.
C15_RingBuffer ==
    LET kept == Min(nlog, MaxRecentEvents)
    IN /\ Len(recentEvents) <= MaxRecentEvents
       /\ Len(recentEvents) = kept
       /\ \A i \in 1..kept : recentEvents[i] = <<"probe", nlog - kept + i>>

\* 130 appends: entries 1..30 are gone, 31..130 remain
C15_Witness ==
    /\ nlog = 130
    /\ Len(recentEvents) = 100
    /\ recentEvents[1] = <<"probe", 31>>
    /\ recentEvents[100] = <<"probe", 130>>
(* ---------------------------- token bucket ----------------------------- *)
\* C16: for a key first seen with capacity C, the first C calls made at
\* that instant are allowed and the next one is denied; and once a call for
\* the key was denied at time t with no call allowed since, a call at or
\* after t + 1/R seconds is allowed, however many denied calls came between.
C16_BurstAndRecovery ==
    [][\A key \in DOMAIN rateCalls' :
          /\ \A i \in 1..Len(rateCalls'[key].burst) :
                 rateCalls'[key].burst[i] = (i <= maxTokens)
          /\ (/\ key \in DOMAIN rateCalls
              /\ rateCalls'[key] # rateCalls[key]
              /\ rateCalls[key].denyAt # -1
              /\ (now - rateCalls[key].denyAt) * refillRate >= 1000)
                => rateCalls'[key].last]_vars
(* ----------------------------- access gate ----------------------------- *)
\* the gate status a step gave to the request it handled; 0: gate passed
Arrives(c) == pc[c] = "idle" /\ pc'[c] # "idle"
ArrivalStatus(c) == IF pc'[c] = "rejected" THEN resp'[c] ELSE 0
Dispatches == ndisp' # ndisp
PostStatus == IF GateRejected(lastDispatch'.status) THEN lastDispatch'.status ELSE 0

\* P(req, status) holds of every request a step handles
EveryGated(P(_, _)) ==
    /\ \A c \in Conns : Arrives(c) => P(connReq'[c], ArrivalStatus(c))
    /\ Dispatches => P(lastDispatch'.req, PostStatus)

KeyOf(req) == IF req.hdrKey # "" THEN req.hdrKey ELSE req.qKey
AuthFails(req) == mcpApiKey # NoKey /\ KeyOf(req) # mcpApiKey
OriginOf(req) == IF req.origin # NoOrigin THEN req.origin ELSE req.referer
OriginListed(origin) ==
    \/ Wildcard \in allowedOrigins
    \/ \E o \in allowedOrigins :
          Len(o) <= Len(origin) /\ \A i \in 1..Len(o) : o[i] = origin[i]
CorsFails(req) == OriginOf(req) # NoOrigin /\ ~OriginListed(OriginOf(req))

\* C17: a request that fails Auth gets 401, whatever its origin and its
\* rate bucket; one that passes Auth and fails CORS gets 403, whatever its
\* rate bucket; and a request answered 401 or 403 changes no rate bucket.
C17_Holds(req, status) ==
    /\ AuthFails(req) => status = 401
    /\ (~AuthFails(req) /\ CorsFails(req)) => status = 403
    /\ status \in {401, 403} => buckets' = buckets

C17_GateOrder == [][EveryGated(C17_Holds)]_vars

C17_Witness ==
    /\ connReq[1] = ReqAllWrong
    /\ resp[1] = 401
    /\ lastDispatch.req = ReqEvilDrained
    /\ lastDispatch.status = 403
    /\ buckets = InitBuckets

\* C18: with no secret configured every request passes Auth; with a secret
\* a request passes Auth exactly when the key it provides (header, else
\* query parameter) equals the secret; a request answered 401 establishes
\* no session and has no message forwarded.
C18_Holds(req, status) ==
    /\ mcpApiKey = NoKey => status # 401
    /\ mcpApiKey # NoKey => (status # 401 <=> KeyOf(req) = mcpApiKey)
    /\ status = 401 =>
          /\ sseTransports' = sseTransports
          /\ sessionId' = sessionId
          /\ Dispatches => lastDispatch'.fwd = 0

C18_AuthCheck == [][EveryGated(C18_Holds)]_vars

C18_Witness ==
    /\ mcpApiKey = Secret
    /\ connReq[1] = ReqKeyQuery
    /\ sessionId[1] = 1
    /\ lastDispatch.req = ReqKeyBoth
    /\ lastDispatch.status = 401
    /\ lastDispatch.fwd = 0
\* C19 as stated: a request without an origin header is never answered 403,
\* whatever its other headers and whatever the allow-list.
C19_Holds(req, status) == req.origin = NoOrigin => status # 403

C19_NoOriginAllowed == [][EveryGated(C19_Holds)]_vars

\* C19 amended: a request with neither an origin header nor a referer header
\* is never answered 403, whatever its other headers and whatever the
\* allow-list.
C19_HoldsBare(req, status) ==
    (req.origin = NoOrigin /\ req.referer = NoOrigin) => status # 403

C19_NoOriginNoRefererAllowed == [][EveryGated(C19_HoldsBare)]_vars

C19_Witness ==
    /\ allowedOrigins = {OriginVite}
    /\ mcpApiKey = Secret
    /\ connReq[1] = ReqKeyQuery
    /\ sessionId[1] = 1
    /\ lastDispatch.req = ReqDrained
    /\ lastDispatch.status = 429

\* C20: a request with an origin header that passed Auth is let through by
\* the CORS check exactly when the allow-list holds the wildcard or an entry
\* that is a prefix of the origin; otherwise it is answered 403.
C20_Holds(req, status) ==
    (req.origin # NoOrigin /\ ~AuthFails(req)) =>
        (status # 403 <=> OriginListed(req.origin))

C20_DeclaredOrigin == [][EveryGated(C20_Holds)]_vars

C20_Witness ==
    /\ allowedOrigins = DefaultOrigins
    /\ connReq[1] = ReqEvil
    /\ resp[1] = 403
    /\ lastDispatch.req = ReqOriginLong
    /\ ~GateRejected(lastDispatch.status)

\* the key the rate check should draw from: the auth key the request
\* provides, else its network address, else "anonymous"
AuthRateKey(req) ==
    IF KeyOf(req) # "" THEN KeyOf(req)
    ELSE IF req.ip # "" THEN req.ip ELSE "anonymous"

\* C21: a request that reaches the rate check draws from the bucket of its
\* auth key (header or query parameter), else of its network address, and
\* from no other bucket; it is answered 429 exactly when the limiter denies
\* that key.
C21_Holds(req, status) ==
    status \notin {401, 403} =>
        /\ AuthRateKey(req) \in DOMAIN buckets'
        /\ \A k \in DOMAIN buckets' \ {AuthRateKey(req)} :
               k \in DOMAIN buckets /\ buckets'[k] = buckets[k]
        /\ status = 429 <=> ~RateCheckAllow(AuthRateKey(req))

C21_KeyedByAuthKey == [][EveryGated(C21_Holds)]_vars

(* ---------------------------- CORS preflight --------------------------- *)
\* C22: an OPTIONS request on either protocol endpoint is never answered 401
\* or 429, whatever its key and its rate bucket; it carries exactly the
\* headers the CORS check derives from the allow-list (the declared origin
\* or "*", the methods GET/POST/OPTIONS, the auth header) when the origin is
\* let through and none otherwise; it changes no rate bucket, nor the session
\* map, nor the store.
C22_Preflight ==
    [][npre' # npre =>
         LET r == lastPreflight'
         IN /\ r.endpoint \in Endpoints
            /\ r.status \notin {401, 429}
            /\ r.headers =
                 IF CorsFails(r.req) THEN NoHeaders
                 ELSE [allowOrigin |-> IF OriginOf(r.req) # NoOrigin
                                       THEN OriginOf(r.req) ELSE Wildcard,
                       allowMethods |-> <<"GET", "POST", "OPTIONS">>,
                       allowHeaders |-> <<"Content-Type", "x-api-key">>,
                       allowCredentials |-> TRUE]
            /\ buckets' = buckets
            /\ sseTransports' = sseTransports
            /\ sessionId' = sessionId
            /\ store' = store]_vars

C22_Witness ==
    /\ mcpApiKey = Secret
    /\ allowedOrigins = {Wildcard}
    /\ lastPreflight.req = ReqAllWrong
    /\ lastPreflight.endpoint = "/api/mcp/messages"
    /\ lastPreflight.status = 200
    /\ lastPreflight.headers.allowOrigin = OriginEvil
    /\ sessionId[1] = 1
    /\ StoreHas(store, 1)

(* ------------------------- viewer stream access ------------------------ *)
\* C23: a viewer request is never answered 401; whatever key it carries it
\* is answered 403 when its origin is refused, else 429 when the limiter
\* denies its key, and is otherwise registered and sent the handshake; a
\* rejected viewer request is in no registry and has been sent no frame.
C23_ViewerGate ==
    [][\A v \in Viewers :
          /\ (vHealth[v] = "new" /\ vHealth'[v] # "new") =>
               LET req == vReq'[v]
               IN IF CorsFails(req)
                  THEN vHealth'[v] = "rejected" /\ vResp'[v] = 403
                  ELSE IF ~RateCheckAllow(RateKey(req))
                  THEN vHealth'[v] = "rejected" /\ vResp'[v] = 429
                  ELSE /\ v \in viewerSSEClients'
                       /\ vResp'[v] = 200
                       /\ vFrames'[v] # <<>>
          /\ vHealth'[v] = "rejected" =>
               /\ v \notin viewerSSEClients'
               /\ vFrames'[v] = <<>>]_vars

C23_Witness ==
    /\ mcpApiKey = Secret
    /\ vReq[1] = ReqAnon
    /\ 1 \in viewerSSEClients
    /\ npub > 0
    /\ lastPublish.outcome = "ok"
    /\ Len(vFrames[1]) > Len(HandshakeFrames)

(* -------------------------- store unavailable -------------------------- *)
\* C24: while the store is unavailable no step saves, extends, reads or
\* deletes a store entry or waits for the store; an accepted establish
\* registers its session in the local map, a heartbeat tick on a writable
\* stream writes its ping, a dispatch is decided by the local map alone (202
\* or 500 for a local session, 404 otherwise, never 503), and teardown
\* removes the session from the local map and completes.
C24_StoreDown ==
    [][~storeAvailable =>
         /\ store' = store
         /\ extendCalls' = extendCalls
         /\ deleteIssued' = deleteIssued
         /\ \A c \in Conns :
              /\ pc'[c] # "saving"
              /\ closePc'[c] # "deleting"
              /\ (Arrives(c) /\ ArrivalStatus(c) = 0) =>
                   /\ sessionId'[c] \in DOMAIN sseTransports'
                   /\ pc'[c] = "connecting"
              /\ (ticks'[c] # ticks[c] /\ writable[c]) =>
                   Len(sessFrames'[c]) = Len(sessFrames[c]) + 1
              /\ (closeEmitted'[c] /\ ~closeEmitted[c]
                    /\ "teardown" \in closeListeners[c]) =>
                   /\ sessionId[c] \notin DOMAIN sseTransports'
                   /\ closePc'[c] = "done"
         /\ (Dispatches /\ PostStatus = 0) =>
              IF lastDispatch'.sid \in DOMAIN sseTransports
              THEN lastDispatch'.status \in {202, 500}
              ELSE lastDispatch'.status = 404]_vars

C24_Witness ==
    /\ ~storeAvailable
    /\ store = {ForeignId}
    /\ ticks[1] > 0
    /\ closePc[1] = "done"
    /\ sessionId[1] \notin DOMAIN sseTransports
    /\ lastDispatch.sid = ForeignId
    /\ lastDispatch.status = 404

(* --------------------------- dispatch errors --------------------------- *)
\* C25: when forwarding a message to a locally owned session throws, the
\* caller is answered 500 with the fixed body "Internal server error", which
\* is not the thrown error's message, and the session stays in the local map.
C25_DispatchErrorContained ==
    [][(Dispatches /\ lastDispatch'.threw) =>
         /\ lastDispatch'.status = 500
         /\ lastDispatch'.body = "Internal server error"
         /\ lastDispatch'.body # ThrownMessage
         /\ lastDispatch'.sid \in DOMAIN sseTransports'
         /\ sseTransports' = sseTransports]_vars

C25_Witness ==
    /\ lastDispatch.threw
    /\ lastDispatch.sid = 1
    /\ lastDispatch.status = 500
    /\ 1 \in DOMAIN sseTransports
    /\ pc[1] = "done"

(* --------------------------- viewer registries ------------------------- *)
\* the step is the viewer stream's close listener: it logs the disconnect
ViewerDisconnectLogged ==
    /\ nlog' = nlog + 1
    /\ recentEvents'[Len(recentEvents')] = <<"viewer_sse_disconnected">>

\* C26: every live viewer stream is in the stream registry and every live
\* WebSocket viewer in the WebSocket registry; a connection leaves its
\* registry only once closed; the stream's close listener removes it and
\* cancels its heartbeat; a closed connection is written to by no later
\* publish, and once removed it is never registered again.
C26_RegistryMembership ==
    [][/\ \A v \in Viewers :
            /\ vHealth'[v] \in {"open", "broken"} => v \in viewerSSEClients'
            /\ (v \in viewerSSEClients /\ v \notin viewerSSEClients') =>
                   vHealth[v] = "closed"
            /\ vHealth[v] = "closed" =>
                   /\ vHealth'[v] = "closed"
                   /\ vFrames'[v] = vFrames[v]
            /\ (vHealth[v] = "closed" /\ v \notin viewerSSEClients) =>
                   /\ v \notin viewerSSEClients'
                   /\ vHbTimers'[v] = 0
       /\ ViewerDisconnectLogged =>
            \E v \in viewerSSEClients :
                /\ vHealth[v] = "closed"
                /\ v \notin viewerSSEClients'
                /\ vHbTimers'[v] = 0
       /\ \A w \in WsClients :
            /\ wsHealth'[w] \in {"open", "broken"} =>
                   w \in SeqRange(connectedClients')
            /\ (w \in SeqRange(connectedClients)
                  /\ w \notin SeqRange(connectedClients')) =>
                   wsHealth[w] = "closed"
            /\ wsHealth[w] = "closed" =>
                   /\ wsHealth'[w] = "closed"
                   /\ wsFrames'[w] = wsFrames[w]
            /\ (wsHealth[w] = "closed" /\ w \notin SeqRange(connectedClients)) =>
                   w \notin SeqRange(connectedClients')]_vars

C26_Witness ==
    /\ vHealth[1] = "closed"
    /\ 1 \notin viewerSSEClients
    /\ vHbTimers[1] = 0
    /\ wsHealth[1] = "closed"
    /\ connectedClients = <<>>
    /\ npub > 0
    /\ lastPublish.outcome = "ok"
    /\ Len(vFrames[1]) = Len(HandshakeFrames)

(* ----------------------------- rate limiter ---------------------------- *)
\* the key a step of the limiter checked
Checked(key) ==
    /\ key \in DOMAIN rateCalls'
    /\ key \in DOMAIN rateCalls => rateCalls'[key] # rateCalls[key]

\* C27: the first check for a key creates its bucket with capacity - 1 tokens
\* and lastRefill = now and allows; a later check sets lastRefill to now and,
\* with r = min(capacity, tokens + elapsed seconds * refillRate), allows and
\* leaves r - 1 tokens when r >= 1, and denies and leaves r tokens otherwise.
C27_LimiterStep ==
    [][\A key \in RateKeys : Checked(key) =>
          LET new == buckets'[key]
              allowed == rateCalls'[key].last
          IN /\ new.lastRefill = now
             /\ IF key \notin DOMAIN buckets
                THEN allowed /\ new.tokens = FromInt(maxTokens - 1)
                ELSE LET old == buckets[key]
                         gain == DMulInt(DDivInt(now - old.lastRefill, 1000),
                                         refillRate)
                         r == DMinInt(maxTokens, DAdd(old.tokens, gain))
                     IN IF DGe1(r)
                        THEN allowed /\ new.tokens = DSub1(r)
                        ELSE ~allowed /\ new.tokens = r]_vars

\* a key denied at its first instant and allowed again 400 ms later, its
\* refill of 1.2 tokens clamped to the capacity
C27_Witness ==
    /\ maxTokens = 1
    /\ refillRate = 3
    /\ "k1" \in DOMAIN buckets
    /\ now = 400
    /\ buckets["k1"].lastRefill = 400
    /\ buckets["k1"].tokens = DZero
    /\ rateCalls["k1"].last
    /\ ~rateCalls["k1"].burst[Len(rateCalls["k1"].burst)]

\* x <= k for a double x and an integer k
DLeInt(x, k) == IntPart(x) < k \/ (IntPart(x) = k /\ x.s = 0)

\* C28: every bucket holds at most capacity tokens; a check subtracts a token
\* only from a refreshed count of at least 1, so the count never goes below
\* 0; and a check for one key leaves the bucket of every other key as it was.
C28_BucketRange ==
    [][/\ \A key \in DOMAIN buckets' : DLeInt(buckets'[key].tokens, maxTokens)
       /\ \A key \in PairKeys : Checked(key) =>
            /\ (key \in DOMAIN buckets /\ rateCalls'[key].last) =>
                   LET old == buckets[key]
                       gain == DMulInt(DDivInt(now - old.lastRefill, 1000),
                                       refillRate)
                   IN DGe1(DAdd(old.tokens, gain))
            /\ DOMAIN buckets' = DOMAIN buckets \cup {key}
            /\ \A other \in DOMAIN buckets \ {key} :
                   buckets'[other] = buckets[other]]_vars

C28_Witness ==
    /\ refillRate = 3
    /\ DOMAIN buckets = PairKeys
    /\ buckets["k1"].lastRefill = 0
    /\ buckets["k1"].tokens = DZero
    /\ buckets["k2"].lastRefill = MaxClock
    /\ buckets["k2"].tokens = FromInt(maxTokens - 1)
    /\ Len(rateCalls["k2"].burst) > 1

\* C29: the calls allowed for a key between two of its allowed calls, both
\* included, number at most capacity + refillRate * T, T being the seconds
\* between the two (instants are in milliseconds).
C29_RateBound ==
    \A i, j \in 1..Len(allowedAt) :
        i <= j =>
            (j - i + 1) * 1000
                <= maxTokens * 1000 + refillRate * (allowedAt[j] - allowedAt[i])

C29_Witness ==
    /\ maxTokens = 2
    /\ refillRate = 3
    /\ Len(allowedAt) = 4
    /\ allowedAt[2] = 0
    /\ allowedAt[4] = 800

(* --------------------------- dropped consumers ------------------------- *)
\* C30: a viewer stream on which a publish's write failed is eventually no
\* longer in the stream registry.
C30_FailedWriteUnregisters ==
    \A v \in Viewers :
        (v \in lastPublish.failed /\ v \in viewerSSEClients)
            ~> (v \notin viewerSSEClients)

C30_Witness ==
    /\ 1 \in lastPublish.failed
    /\ lastPublish.outcome = "ok"
    /\ vHealth[1] = "closed"
    /\ 1 \notin viewerSSEClients
    /\ vHbTimers[1] = 0

\* C31: an establish request the gate answers with 401, 403 or 429 opens no
\* transport and changes neither the local session map, the store, the
\* heartbeat timers nor the event log; a step registers or persists a
\* session only for a request that passes Auth, CORS and the rate check.
C31_RejectedEstablishInert ==
    [][\A c \in Conns : Arrives(c) =>
          /\ GateRejected(resp'[c]) =>
                /\ sessionId'[c] = NoId
                /\ sessFrames' = sessFrames
                /\ usedIds' = usedIds
                /\ sseTransports' = sseTransports
                /\ store' = store
                /\ hbTimers' = hbTimers
                /\ recentEvents' = recentEvents
                /\ nlog' = nlog
          /\ (sseTransports' # sseTransports \/ store' # store
                  \/ sessionId'[c] # NoId) =>
                /\ ~AuthFails(connReq'[c])
                /\ ~CorsFails(connReq'[c])
                /\ RateCheckAllow(RateKey(connReq'[c]))
                /\ resp'[c] = 0]_vars

C31_Witness ==
    /\ storeAvailable
    /\ pc[1] = "done" /\ resp[1] = 200
    /\ hbTimers[1] > 0
    /\ sessionId[1] \in DOMAIN sseTransports
    /\ store = {ForeignId, sessionId[1]}
    /\ Len(recentEvents) = 1
    /\ pc[2] = "rejected" /\ resp[2] = 429
    /\ sessionId[2] = NoId
    /\ DOMAIN sseTransports = {sessionId[1]}

\* the catch block of establish has run for c: connect was rejected
ConnectFailed(c) == pc[c] = "done" /\ resp[c] = 0

\* C32: after a failed connect the session's id is absent from the local
\* map, its store mirror is deleted when the store is available, it has no
\* heartbeat timer and never ticked, and the log has no 'connected' entry
\* for it.
C32_ConnectFailRollsBack ==
    \A c \in Conns : ConnectFailed(c) =>
        /\ sessionId[c] # NoId
        /\ sessionId[c] \notin DOMAIN sseTransports
        /\ storeAvailable =>
              (sessionId[c] \notin store /\ sessionId[c] \in deleteIssued)
        /\ ~storeAvailable => store = {ForeignId}
        /\ hbTimers[c] = 0 /\ ticks[c] = 0
        /\ "clearHb" \notin closeListeners[c]
        /\ \A i \in 1..Len(recentEvents) :
              recentEvents[i] # <<"mcp_sse_connected", sessionId[c]>>

C32_Witness ==
    /\ storeAvailable
    /\ ConnectFailed(1)
    /\ sessionId[1] \in deleteIssued
    /\ pc[2] = "done" /\ resp[2] = 200
    /\ store = {ForeignId, sessionId[2]}
    /\ DOMAIN sseTransports = {sessionId[2]}
    /\ recentEvents = <<(<<"mcp_sse_connected", sessionId[2]>>)>>

\* the calls that complete a response, and the position of a gate rejection
Completes(call) == call.op \in {"json", "end"}
RejectionAt(calls, i) ==
    /\ i > 1
    /\ calls[i].op = "json"
    /\ calls[i - 1].op = "status"
    /\ GateRejected(calls[i - 1].code)
OneResponse(calls) ==
    /\ Cardinality({i \in 1..Len(calls) : Completes(calls[i])}) <= 1
    /\ \A i \in 1..Len(calls) : RejectionAt(calls, i) => i = Len(calls)

\* C33: every request handled by the OPTIONS, establish, dispatch and viewer
\* handlers gets at most one response, and after a check has sent 401, 403
\* or 429 the handler makes no further call on the response.
C33_OneResponse ==
    /\ \A c \in Conns : OneResponse(respCalls.conn[c])
    /\ \A v \in Viewers : OneResponse(respCalls.viewer[v])
    /\ OneResponse(respCalls.post)
    /\ OneResponse(respCalls.options)

\* the same for the three handlers that return after a failed check
C33_GatedHandlersOneResponse ==
    /\ \A c \in Conns : OneResponse(respCalls.conn[c])
    /\ \A v \in Viewers : OneResponse(respCalls.viewer[v])
    /\ OneResponse(respCalls.post)

\* C34: a heartbeat tick issues a TTL renewal only for a session whose
\* store delete has not been issued, and the mirror of a session whose
\* delete was issued is never in the store again.
C34_NoRenewalAfterDelete ==
    [][/\ \A c \in Conns :
             extendCalls'[c] # extendCalls[c] =>
                 /\ sessionId[c] \notin deleteIssued
                 /\ sessionId[c] \notin deleteIssued'
          /\ \A id \in deleteIssued : id \notin store']_vars

C34_Witness ==
    /\ storeAvailable
    \* closed before connect resolved: the timer started after the teardown
    /\ pc[1] = "done" /\ resp[1] = 200
    /\ closePc[1] = "done"
    /\ sessionId[1] \in deleteIssued
    /\ ticks[1] = 1 /\ extendCalls[1] = 0 /\ hbCancels[1] = 1
    /\ store = {ForeignId}

\* C35: whenever the server accepts a play request for a name, every viewer
\* that is connected and has handled every event holds a clip of that name.
C35_AcceptedPlayHasClip ==
    (lastPublish.op = "play_gltf_animation" /\ lastPublish.outcome = "ok") =>
        \A v \in viewerSSEClients :
            ScenePlays(vFrames[v], lastPublish.msgs[1].data[1])

\* a state-service call, and one that fails for a reason the operation
\* tests itself: an inaccessible file, or a play request while no model is
\* loaded or no animation name is loaded
ServiceCall == npub' = npub + 1
ServiceCallFails ==
    \/ lastPublish'.outcome = "rejected"
    \/ /\ lastPublish'.op = "play_gltf_animation"
       /\ \/ ~vrmState.isLoaded
          \/ \A a \in Animations : a \notin SeqRange(vrmState.loadedAnimations)

\* C36: a failing state-service operation leaves the state record as it
\* was, writes no frame to any viewer or WebSocket client and appends no
\* log entry.
C36_FailedOperationInert ==
    [][(ServiceCall /\ ServiceCallFails) =>
          /\ vrmState' = vrmState
          /\ vFrames' = vFrames
          /\ wsFrames' = wsFrames
          /\ recentEvents' = recentEvents
          /\ nlog' = nlog
          /\ lastPublish'.calls = <<>>]_vars

C36_Witness ==
    /\ npub = 2
    /\ lastPublish = Rejected("play_gltf_animation")
    /\ vrmState = [modelPath |-> "a.vrm", isLoaded |-> TRUE,
                   loadedAnimations |-> <<>>]
    /\ viewerSSEClients = {1}
    /\ connectedClients = <<1>>
    /\ Len(vFrames[1]) = 5
    /\ Len(wsFrames[1]) > 0
    /\ Len(recentEvents) >= 2

\* C37: a call of a name that is not a registered tool is answered with an
\* error of code MethodNotFound, and a known tool whose execution fails with
\* an error of code InternalError.
C37_UnknownToolMethodNotFound ==
    \A i \in 1..Len(toolCalls) :
        LET call == toolCalls[i] IN
        /\ call.name \notin ToolNames =>
              (call.result.kind = "error" /\ call.result.code = MethodNotFound)
        /\ (call.name \in ToolNames /\ call.threw) =>
              (call.result.kind = "error" /\ call.result.code = InternalError)

\* a load of an animation passed its file check in this step
AnimationLoaded ==
    /\ npub' = npub + 1
    /\ lastPublish'.op = "load_gltf_animation"
    /\ lastPublish'.outcome = "ok"
LoadedName == lastPublish'.msgs[1].data[3]

\* C38: loadedAnimations holds no name twice; no step removes or reorders a
\* name; a load under a name already present leaves the list as it was and
\* still publishes its load events and its log entry.
C38_LoadIdempotent ==
    [][/\ \A i, j \in 1..Len(vrmState'.loadedAnimations) :
             vrmState'.loadedAnimations[i] = vrmState'.loadedAnimations[j]
                 => i = j
       /\ IsPrefix(vrmState.loadedAnimations, vrmState'.loadedAnimations)
       /\ (AnimationLoaded /\ LoadedName \in SeqRange(vrmState.loadedAnimations))
             => /\ vrmState' = vrmState
                /\ Len(lastPublish'.calls) = 2
                /\ \A v \in lastPublish'.wrote \ lastPublish'.failed :
                      Len(vFrames'[v]) = Len(vFrames[v]) + 2
                /\ nlog' = nlog + 1
       /\ AnimationLoaded
             => LoadedName \in SeqRange(vrmState'.loadedAnimations)]_vars

C38_Witness ==
    /\ npub = 2
    /\ lastPublish.op = "load_gltf_animation"
    /\ lastPublish.outcome = "ok"
    /\ vrmState.loadedAnimations = <<"wave">>
    /\ viewerSSEClients = {1}
    /\ Len(vFrames[1]) = 7
    /\ vFrames[1][4][2] = "load_animation"
    /\ vFrames[1][6][2] = "load_animation"
    /\ nlog = 3
====
